---------------------------- MODULE Spec2Model ----------------------------
(***************************************************************************)
(* Kiro account management console: the KiroPage cache and refresh/delete  *)
(* workflows, the kiroApi client, the import modal's parser and the OAuth  *)
(* polling loops of OAuthPage.                                             *)
(*                                                                         *)
(* Strings that the code takes apart (file names, ids) are sequences of    *)
(* tokens; every token is a piece of text that holds no part of another    *)
(* token, so a substring search of the code is a token search here.        *)
(* JavaScript's undefined is the value Undefined; an object is a function  *)
(* from its keys, and a key that is absent reads as Undefined.             *)
(***************************************************************************)
EXTENDS Integers, Sequences, FiniteSets, TLC

VARIABLES
    \* ---- backend and kiroApi client (services/api/kiro.ts)
    files,          \* the backend's auth files, in listing order
    apiAccounts,    \* what the last kiroApi.getAccounts() returned
    apiListed,      \* the listing that call was answered with
    requests,       \* the HTTP requests issued so far, in order
    getCalls,       \* how many times kiroApi.getAccounts() was called
    deletes,        \* per kiroApi.deleteAccount(account.id) call: the account's
                    \* fileName and the file name the request addressed
    deleteCall,     \* <<>> or the kiroApi.deleteAccounts(ids) call: ids, the
                    \* position k of the id whose DELETE is awaited, deleted,
                    \* errors and, once it returned, its result
    exports,        \* per kiroApi.exportAccounts(ids) call: ids, the listing it
                    \* was answered with and the text it resolved with
    \* ---- KiroImportModal (components/kiro/KiroImportModal.tsx)
    phase,          \* 'upload' | 'preview' | 'importing' | 'complete'
    jsonText,       \* the pasted or uploaded text
    parseResult,    \* <<>> (null) or <<[valid, invalid]>>
    importModalOpen,\* KiroPage state: the modal's open prop
    resetTimers,    \* the 300 ms timers of the modal's close effect still to fire
    importRequests, \* importKiroAccounts calls awaiting their response
    importCount,    \* how many importKiroAccounts calls were made
    importSent,     \* <<>> or <<the accounts the last call sent>>
    fileReads,      \* the texts of the files a FileReader is reading
    \* ---- OAuthPage (pages/OAuthPage.tsx)
    states,         \* per generic provider: [status, polling]
    kiroState,      \* [status, polling]
    timers,         \* timers.current: key -> registered timer id (0: no entry)
    activeTimers,   \* the ids of the interval timers the browser still fires
    timerKey,       \* per timer id: the key its closure holds ("": not set yet)
    nextTimer,      \* the id the next window.setInterval returns
    starting,       \* the keys whose start request is awaiting its response
    inflight,       \* per timer id: status requests awaiting their response
    authUrlOpened,  \* the Kiro timers whose closure has authUrlOpened = true
    opened,         \* per Kiro timer: how often its callback called window.open
    importing,      \* importKiroIDEToken requests awaiting their response
    finished,       \* history: the timers whose handler saw a final response
    \* ---- KiroPage (pages/KiroPage.tsx)
    cachedAccounts, \* module level: the cached list
    cachedStats,    \* module level: its stats
    storage,        \* localStorage['kiro_accounts_cache']: <<>> or <<text>>
    mounted,        \* a KiroPage instance is on screen
    mounts,         \* how many instances were mounted so far
    accounts,       \* React state of the mounted instance, as are the next nine
    stats,
    loading,
    refreshingId,   \* <<>> (null) or <<id>>
    refreshingAll,
    selectedIds,
    deleteModalOpen,
    deleteTarget,   \* <<>> (null) or <<[type, id]>>
    statusFilter,
    loads,          \* kiroApi.getAccounts calls awaiting their response
    refreshes,      \* handleRefresh calls awaiting their usage response
    refreshAlls,    \* fetchUsageForAccounts runs awaiting a batch
    deleting,       \* handleDeleteConfirm calls awaiting a DELETE
    usageAnswers,   \* backend: per file name, the answers /kiro-usage may give
    issued,         \* the HTTP requests the last step of the page sent
    notified,       \* the types of the notifications the last step showed
    storageFull,    \* this browser's localStorage.setItem throws (no quota left)
    clicks,         \* how many user actions the page has seen
    \* ---- KiroAccountList (components/kiro/KiroAccountList.tsx)
    searchTerm,     \* the text of the search input
    currentPage,    \* the page of the list that is shown
    viewMode        \* 'card' or 'table'

None == "none"
Undefined == "undefined"

(***************************************************************************)
(* Strings as token sequences                                              *)
(***************************************************************************)
JSON_EXT == <<".json">>

\* String.prototype.toLowerCase on one token
LowerToken(c) ==
    CASE c = "Kiro-" -> "kiro-"
      [] c = ".JSON" -> ".json"
      [] c = "KIRO " -> "kiro "
      [] c = "PRO" -> "pro"
      [] c = "Free" -> "free"
      [] OTHER -> c

toLowerCase(s) == [i \in 1..Len(s) |-> LowerToken(s[i])]

startsWith(s, p) == Len(s) >= Len(p) /\ SubSeq(s, 1, Len(p)) = p

endsWith(s, p) == Len(s) >= Len(p) /\ SubSeq(s, Len(s) - Len(p) + 1, Len(s)) = p

\* the positions at which p occurs in s
Occurrences(s, p) ==
    {i \in 1..(Len(s) - Len(p) + 1) : SubSeq(s, i, i + Len(p) - 1) = p}

Min(S) == CHOOSE x \in S : \A y \in S : x <= y

\* s.replace(p, ''): a string pattern replaces its FIRST occurrence only
replaceFirst(s, p) ==
    IF Occurrences(s, p) = {} THEN s
    ELSE LET i == Min(Occurrences(s, p))
         IN  SubSeq(s, 1, i - 1) \o SubSeq(s, i + Len(p), Len(s))

(***************************************************************************)
(* kiroApi (services/api/kiro.ts)                                          *)
(***************************************************************************)
KIRO_FILE_PREFIXES == {<<"kiro-">>, <<"amazonq-">>}

isKiroAuthFileCaseSensitive(fileName) ==
    \E prefix \in KIRO_FILE_PREFIXES : startsWith(fileName, prefix)

isKiroAuthFile(fileName) ==
    \E prefix \in KIRO_FILE_PREFIXES : startsWith(toLowerCase(fileName), prefix)

\* status: file.status || 'unknown'   ('' and undefined are falsy)
OrUnknown(v) == IF v \in {Undefined, ""} THEN "unknown" ELSE v

\* the object pushed for one listed file (lines 146-154); it has no
\* usageData key
AccountOfFile(file) ==
    [id        |-> replaceFirst(file.name, JSON_EXT),
     label     |-> file.label,
     status    |-> OrUnknown(file.status),
     fileName  |-> file.name,
     usageData |-> <<>>]

RECURSIVE AccountsOf(_)
AccountsOf(fs) ==
    IF fs = <<>> THEN <<>>
    ELSE IF isKiroAuthFile(Head(fs).name)
         THEN <<AccountOfFile(Head(fs))>> \o AccountsOf(Tail(fs))
         ELSE AccountsOf(Tail(fs))

\* kiroApi.getAccounts: one GET /auth-files, then a filter-map of the listing
getAccountsRequests == <<[method |-> "GET", url |-> "/auth-files", name |-> <<>>]>>

\* kiroApi.deleteAccount: the file name the DELETE addresses
deleteAccountFileNameNoCheck(id) == id \o JSON_EXT

deleteAccountFileName(id) == IF endsWith(id, JSON_EXT) THEN id ELSE id \o JSON_EXT

deleteAccountRequest(id) ==
    [method |-> "DELETE", url |-> "/auth-files", name |-> deleteAccountFileName(id)]

\* the backend's answer to DELETE /auth-files?name=n: the file of that name goes
RemoveFile(fs, n) == SelectSeq(fs, LAMBDA f : f.name # n)

(***************************************************************************)
(* File names the backend may hold: prefix + stem + extension              *)
(***************************************************************************)
NamePrefixes == {<<"kiro-">>, <<"Kiro-">>, <<"amazonq-">>, <<"codex-">>}
NameStems    == {<<"x">>, <<"x", ".json">>}
NameExts     == {<<".json">>, <<".JSON">>}
FileNames    == {p \o s \o e : p \in NamePrefixes, s \in NameStems, e \in NameExts}
FileStatuses == {Undefined, "", "expired"}

MaxListing  == 2
MaxRequests == 3

apiVars == <<files, apiAccounts, apiListed, requests, getCalls, deletes, exports,
             deleteCall>>
importVars == <<phase, jsonText, parseResult, fileReads, importModalOpen, resetTimers,
                importRequests, importCount, importSent>>
oauthVars == <<states, kiroState, timers, activeTimers, timerKey, nextTimer, starting,
               inflight, authUrlOpened, opened, importing, finished>>

cacheVars == <<cachedAccounts, cachedStats, storage, accounts, stats>>
uiVars == <<refreshingId, refreshingAll, selectedIds, deleteModalOpen, deleteTarget,
            statusFilter>>
opVars == <<loads, refreshes, refreshAlls, deleting>>
listVars == <<searchTerm, currentPage, viewMode>>
pageVars == <<mounted, mounts, clicks, cacheVars, loading, uiVars, opVars, usageAnswers,
              issued, notified, storageFull, listVars>>

\* what the steps of one component leave alone
apiOthers == <<importVars, oauthVars, pageVars>>
importOthers == <<apiVars, oauthVars, pageVars>>
oauthOthers == <<apiVars, importVars, pageVars>>
pageOthers == <<apiAccounts, apiListed, requests, getCalls, deletes, exports, deleteCall,
                listVars,
                importVars, oauthVars>>

\* no call of the client has been made
ApiIdle ==
    /\ apiAccounts = <<>>
    /\ apiListed = <<>>
    /\ requests = <<>>
    /\ getCalls = 0
    /\ deletes = {}
    /\ exports = <<>>
    /\ deleteCall = <<>>

ApiInit ==
    /\ files = <<>>
    /\ ApiIdle

\* another client of the backend stores an auth file
BackendAddFile(name, status) ==
    /\ getCalls = 0
    /\ Len(files) < MaxListing
    /\ \A i \in 1..Len(files) : files[i].name # name
    /\ files' = Append(files, [name |-> name, status |-> status, label |-> Undefined])
    /\ UNCHANGED <<apiAccounts, apiListed, requests, getCalls, deletes, exports,
                   deleteCall>>
    /\ UNCHANGED apiOthers

\* kiroApi.getAccounts()
ApiGetAccounts ==
    /\ Len(requests) < MaxRequests
    /\ requests' = requests \o getAccountsRequests
    /\ getCalls' = getCalls + 1
    /\ apiListed' = files
    /\ apiAccounts' = AccountsOf(files)
    /\ UNCHANGED <<files, deletes, exports, deleteCall>>
    /\ UNCHANGED apiOthers

\* kiroApi.deleteAccount(account.id) for an account of the last listing
ApiDeleteAccount(i) ==
    /\ getCalls > 0
    /\ i \in 1..Len(apiAccounts)
    /\ Len(requests) < MaxRequests
    /\ LET req == deleteAccountRequest(apiAccounts[i].id)
       IN  /\ requests' = Append(requests, req)
           /\ files' = RemoveFile(files, req.name)
           /\ deletes' = deletes \cup
                  {[fileName |-> apiAccounts[i].fileName, target |-> req.name]}
    /\ UNCHANGED <<apiAccounts, apiListed, getCalls, exports, deleteCall>>
    /\ UNCHANGED apiOthers

\* a key that an object does not have reads as undefined
Get(obj, key) == IF key \in DOMAIN obj THEN obj[key] ELSE Undefined

\* the keys of the object exportAccounts builds per account, in order (lines
\* 374-383)
EXPORT_KEYS == <<"id", "email", "label", "provider", "authMethod", "status",
                 "expiresAt", "region", "createdAt", "updatedAt">>

\* the keys of KiroAccountItem the export is to leave out
SENSITIVE_KEYS == {"accessToken", "refreshToken", "clientSecret"}

EXPORT_KEYS_AND_TOKENS == EXPORT_KEYS \o <<"accessToken", "refreshToken", "clientSecret">>

\* a value as JSON.stringify writes it: the id is a token sequence already,
\* any other string is one token
JsonValue(key, v) == IF key = "id" THEN v ELSE <<v>>

RECURSIVE stringifyKeys(_, _)
stringifyKeys(obj, keys) ==
    IF keys = <<>> THEN <<>>
    ELSE (IF Get(obj, Head(keys)) = Undefined THEN <<>>
          ELSE <<[key |-> Head(keys), value |-> JsonValue(Head(keys), Get(obj, Head(keys)))]>>)
         \o stringifyKeys(obj, Tail(keys))

exportEntryWithTokens(account) == stringifyKeys(account, EXPORT_KEYS_AND_TOKENS)

\* one element of exportData as JSON.stringify writes it: a key whose value
\* is undefined is left out (lines 373-386)
exportEntry(account) == stringifyKeys(account, EXPORT_KEYS)

toExportAll(list, ids) == list

\* ids?.length ? accounts.filter((a) => ids.includes(a.id)) : accounts
\* (lines 368-370); ids is <<>> (undefined) or <<the array>>
toExport(list, ids) ==
    IF ids # <<>> /\ Len(ids[1]) > 0
    THEN SelectSeq(list, LAMBDA a : \E i \in 1..Len(ids[1]) : ids[1][i] = a.id)
    ELSE list

\* JSON.stringify(exportData, null, 2): the text as the sequence of its objects
exportText(list, ids) ==
    [i \in 1..Len(toExport(list, ids)) |-> exportEntry(toExport(list, ids)[i])]

MaxExports == 2

\* kiroApi.exportAccounts(ids) (lines 366-387): it rejects when the listing
\* request does
ApiExportAccounts(ids, ok) ==
    /\ Len(exports) < MaxExports
    /\ requests' = requests \o getAccountsRequests
    /\ exports' = Append(exports,
                     [ids |-> ids, listed |-> files, rejected |-> ~ok,
                      text |-> IF ok THEN <<exportText(AccountsOf(files), ids)>> ELSE <<>>])
    /\ UNCHANGED <<files, apiAccounts, apiListed, getCalls, deletes, deleteCall>>
    /\ UNCHANGED apiOthers

\* kiroApi.deleteAccounts(ids) to its first await (lines 184-190): the DELETE
\* of the first id is sent, or the loop is empty and the call returns
ApiDeleteAccounts(ids) ==
    /\ deleteCall = <<>>
    /\ requests' = IF Len(ids) > 0 THEN Append(requests, deleteAccountRequest(ids[1]))
                   ELSE requests
    /\ deleteCall' =
           <<[ids |-> ids, k |-> 1, deleted |-> <<>>, errors |-> <<>>,
              result |-> IF Len(ids) > 0 THEN <<>>
                         ELSE <<[success |-> TRUE, deleted |-> <<>>, errors |-> <<>>]>>]>>
    /\ UNCHANGED <<files, apiAccounts, apiListed, getCalls, deletes, exports>>
    /\ UNCHANGED apiOthers

\* the DELETE that kiroApi.deleteAccounts awaits is answered (lines 189-194):
\* the id goes to deleted or to errors, then the next DELETE is sent or the
\* call returns (line 197)
ApiDeleteAnswer(ok) ==
    /\ deleteCall # <<>>
    /\ deleteCall[1].k <= Len(deleteCall[1].ids)
    /\ LET c       == deleteCall[1]
           id      == c.ids[c.k]
           deleted == IF ok THEN Append(c.deleted, id) ELSE c.deleted
           errors  == IF ok THEN c.errors ELSE Append(c.errors, id)
       IN  /\ files' = IF ok THEN RemoveFile(files, deleteAccountFileName(id)) ELSE files
           /\ requests' = IF c.k < Len(c.ids)
                          THEN Append(requests, deleteAccountRequest(c.ids[c.k + 1]))
                          ELSE requests
           /\ deleteCall' =
                  <<[c EXCEPT !.k = c.k + 1, !.deleted = deleted, !.errors = errors,
                              !.result =
                                  IF c.k < Len(c.ids) THEN <<>>
                                  ELSE <<[success |-> Len(errors) = 0,
                                          deleted |-> deleted, errors |-> errors]>>]>>
    /\ UNCHANGED <<apiAccounts, apiListed, getCalls, deletes, exports>>
    /\ UNCHANGED apiOthers

ApiNext ==
    \/ \E name \in FileNames, status \in FileStatuses : BackendAddFile(name, status)
    \/ ApiGetAccounts
    \/ \E i \in 1..MaxListing : ApiDeleteAccount(i)

(***************************************************************************)
(* KiroImportModal: parseJson and the phase machine                        *)
(*                                                                         *)
(* A text is blank, not JSON, or JSON holding an array of objects or one   *)
(* object.  A JSON value is [t, s]: its type and, for a string or number,  *)
(* its characters as tokens.                                               *)
(***************************************************************************)
JUndefined == [t |-> "undefined", s |-> <<>>]
JString(s) == [t |-> "string", s |-> s]
JNumber(s) == [t |-> "number", s |-> s]

\* JavaScript truthiness of a JSON value
Falsy(v) ==
    \/ v.t \in {"undefined", "null"}
    \/ v.t = "string" /\ v.s = <<>>
    \/ v.t = "number" /\ v.s = <<"0">>

RefreshTokens ==
    {JUndefined, JString(<<>>), JString(<<"aor", "1">>), JString(<<"aor", "2">>),
     JString(<<"x", "aor">>), JNumber(<<"7">>)}
Emails == {JUndefined, JString(<<"a@x">>)}
Entries == [email : Emails, refreshToken : RefreshTokens]

MaxEntries == 2

EntryLists == UNION {[1..n -> Entries] : n \in 0..MaxEntries}

Texts ==
    {[kind |-> "blank", isArray |-> FALSE, items |-> <<>>],
     [kind |-> "garbage", isArray |-> FALSE, items |-> <<>>]}
    \cup {[kind |-> "json", isArray |-> TRUE, items |-> l] : l \in EntryLists}
    \cup {[kind |-> "json", isArray |-> FALSE, items |-> <<e>>] : e \in Entries}

\* account.email || `#${index + 1}`
EmailOrIndex(account, index) ==
    IF Falsy(account.email) THEN [text |-> <<"#">>, number |-> index + 1]
    ELSE [text |-> account.email.s, number |-> 0]

TokenIsAor(v) == startsWith(v.s, <<"aor">>)

\* accounts.forEach(...): index is the JavaScript index of items[index + 1].
\* A truthy refreshToken that is no string has no startsWith method: the
\* call throws a TypeError, which leaves forEach.
RECURSIVE forEachAccount(_, _, _, _)
forEachAccount(items, index, valid, invalid) ==
    IF index >= Len(items)
    THEN [threw |-> FALSE, valid |-> valid, invalid |-> invalid]
    ELSE LET account == items[index + 1]
             email == EmailOrIndex(account, index)
         IN  IF Falsy(account.refreshToken)
             THEN forEachAccount(items, index + 1, valid,
                      Append(invalid, [index |-> index,
                                       reason |-> "Missing refreshToken",
                                       email |-> email]))
             ELSE IF account.refreshToken.t # "string"
             THEN [threw |-> TRUE, valid |-> valid, invalid |-> invalid]
             ELSE IF ~TokenIsAor(account.refreshToken)
             THEN forEachAccount(items, index + 1, valid,
                      Append(invalid, [index |-> index,
                                       reason |-> "Invalid refreshToken",
                                       email |-> email]))
             ELSE forEachAccount(items, index + 1, Append(valid, account), invalid)

InvalidJson ==
    [valid |-> <<>>,
     invalid |-> <<[index |-> -1, reason |-> "Invalid JSON format",
                    email |-> [text |-> <<>>, number |-> 0]]>>]

\* parseJson(text): <<>> is null
parseJson(text) ==
    IF text.kind = "blank" THEN <<>>
    ELSE IF text.kind = "garbage" THEN <<InvalidJson>>
    ELSE LET r == forEachAccount(text.items, 0, <<>>, <<>>)
         IN  IF r.threw THEN <<InvalidJson>>
             ELSE <<[valid |-> r.valid, invalid |-> r.invalid]>>

ImportInit ==
    /\ phase = "upload"
    /\ jsonText = [kind |-> "blank", isArray |-> FALSE, items |-> <<>>]
    /\ parseResult = <<>>
    /\ importModalOpen = FALSE
    /\ resetTimers = 0
    /\ importRequests = {}
    /\ importCount = 0
    /\ importSent = <<>>
    /\ fileReads = {}

\* what the textarea and the back button leave alone
importCallVars == <<importModalOpen, resetTimers, importRequests, importCount, importSent,
                    fileReads>>

\* handlePaste: the textarea is rendered in phase 'upload' only
handlePaste(text) ==
    /\ importModalOpen
    /\ phase = "upload"
    /\ jsonText' = text
    /\ parseResult' = parseJson(text)
    /\ phase' = IF parseJson(text) # <<>> /\ Len(parseJson(text)[1].valid) > 0
                THEN "preview" ELSE phase
    /\ UNCHANGED importCallVars
    /\ UNCHANGED importOthers

\* handleBack: the back button is rendered in phase 'preview' only
handleBack ==
    /\ importModalOpen
    /\ phase = "preview" /\ parseResult # <<>>
    /\ phase' = "upload"
    /\ parseResult' = <<>>
    /\ UNCHANGED jsonText
    /\ UNCHANGED importCallVars
    /\ UNCHANGED importOthers

(***************************************************************************)
(* OAuthPage: start of an attempt, the polling loops, the manual import    *)
(***************************************************************************)
\* the generic providers modelled (one of the five entries of PROVIDERS: the
\* handlers are the same for each, and a provider touches its own key only)
PROVIDERS == {"codex"}
KIRO == "kiro"
TimerKeys == PROVIDERS \cup {KIRO}

MaxTimers   == 3    \* window.setInterval calls in one run
MaxInflight == 2    \* status requests awaiting their response at one time

TimerIds == 1..MaxTimers

\* what oauthApi.getAuthStatus resolves to (status), or "throw"
StatusResults == {"ok", "error", "wait", "throw"}
\* what kiroApi.getAuthStatus resolves to, or "throw"; "auth_url_no_url" is
\* status 'auth_url' without url, "error_auth_url" is status 'error' whose
\* error text starts with 'auth_url|'
KiroStatusResults ==
    {"ok", "device_code", "auth_url", "auth_url_no_url", "error_auth_url",
     "error", "wait", "expired", "throw"}
\* what a start request resolves to: with state, without state, or "throw"
StartResults == {"state", "no_state", "throw"}

RECURSIVE SumOver(_, _)
SumOver(f, S) ==
    IF S = {} THEN 0
    ELSE LET x == CHOOSE y \in S : TRUE IN f[x] + SumOver(f, S \ {x})

OAuthInit ==
    /\ states = [p \in PROVIDERS |-> [status |-> Undefined, polling |-> FALSE]]
    /\ kiroState = [status |-> "idle", polling |-> FALSE]
    /\ timers = [k \in TimerKeys |-> 0]
    /\ activeTimers = {}
    /\ timerKey = [t \in TimerIds |-> ""]
    /\ nextTimer = 1
    /\ starting = {}
    /\ inflight = [t \in TimerIds |-> 0]
    /\ authUrlOpened = {}
    /\ opened = [t \in TimerIds |-> 0]
    /\ importing = 0
    /\ finished = {}

\* window.clearInterval(id): the timer of that id, if any, fires no more
clearInterval(active, id) == active \ {id}

\* the first lines of startPolling / startKiroPolling:
\* if (timers.current[key]) clearInterval(timers.current[key])
ClearRegistered(active, key) ==
    IF timers[key] # 0 THEN clearInterval(active, timers[key]) ELSE active

\* the mutant: the previous timer is not cleared
ClearRegisteredNever(active, key) == active

\* startPolling / startKiroPolling: clear the registered timer, set a new
\* interval and register it under the key
startPollingEffect(key) ==
    /\ activeTimers' = ClearRegistered(activeTimers, key) \cup {nextTimer}
    /\ timerKey' = [timerKey EXCEPT ![nextTimer] = key]
    /\ timers' = [timers EXCEPT ![key] = nextTimer]
    /\ nextTimer' = nextTimer + 1

\* the end of a loop in a handler: window.clearInterval(timer);
\* delete timers.current[key]
StopLoopKeepTimer(id) ==
    /\ activeTimers' = activeTimers
    /\ timers' = [timers EXCEPT ![timerKey[id]] = 0]

StopLoop(id) ==
    /\ activeTimers' = clearInterval(activeTimers, id)
    /\ timers' = [timers EXCEPT ![timerKey[id]] = 0]

\* ---- generic providers
\* startAuth up to its await; the login button shows loading while polling
StartAuthClick(p) ==
    /\ ~states[p].polling
    /\ p \notin starting
    /\ nextTimer + Cardinality(starting) <= MaxTimers
    /\ states' = [states EXCEPT ![p] = [status |-> "waiting", polling |-> TRUE]]
    /\ starting' = starting \cup {p}
    /\ UNCHANGED <<kiroState, timers, activeTimers, timerKey, nextTimer, inflight,
                   authUrlOpened, opened, importing, finished>>
    /\ UNCHANGED oauthOthers

\* startAuth after its await
StartAuthResponse(p, res) ==
    /\ p \in starting
    /\ starting' = starting \ {p}
    /\ IF res = "throw"
       THEN /\ states' = [states EXCEPT ![p] = [status |-> "error", polling |-> FALSE]]
            /\ UNCHANGED <<timers, activeTimers, timerKey, nextTimer>>
       ELSE /\ states' = [states EXCEPT ![p] = [status |-> "waiting", polling |-> TRUE]]
            /\ IF res = "state"
               THEN startPollingEffect(p)
               ELSE UNCHANGED <<timers, activeTimers, timerKey, nextTimer>>
    /\ UNCHANGED <<kiroState, inflight, authUrlOpened, opened, importing, finished>>
    /\ UNCHANGED oauthOthers

\* an interval fires: the callback issues getAuthStatus and awaits it
PollTick(id) ==
    /\ id \in activeTimers
    /\ SumOver(inflight, TimerIds) < MaxInflight
    /\ inflight' = [inflight EXCEPT ![id] = @ + 1]
    /\ UNCHANGED <<states, kiroState, timers, activeTimers, timerKey, nextTimer, starting,
                   authUrlOpened, opened, importing, finished>>
    /\ UNCHANGED oauthOthers

\* the callback of startPolling after its await; the timer may be cleared
\* by then, the callback runs all the same
PollResponse(id, p, res) ==
    /\ timerKey[id] = p
    /\ inflight[id] > 0
    /\ inflight' = [inflight EXCEPT ![id] = @ - 1]
    /\ IF res = "wait"
       THEN UNCHANGED <<states, timers, activeTimers, finished>>
       ELSE /\ states' = [states EXCEPT ![p] =
                   [status |-> IF res = "ok" THEN "success" ELSE "error",
                    polling |-> FALSE]]
            /\ StopLoop(id)
            /\ finished' = finished \cup {id}
    /\ UNCHANGED <<kiroState, timerKey, nextTimer, starting, authUrlOpened, opened, importing>>
    /\ UNCHANGED oauthOthers

\* ---- Kiro
\* startKiroAuth up to its await; the three buttons are disabled while polling
StartKiroAuthClick ==
    /\ ~kiroState.polling
    /\ KIRO \notin starting
    /\ nextTimer + Cardinality(starting) <= MaxTimers
    /\ kiroState' = [status |-> "waiting", polling |-> TRUE]
    /\ starting' = starting \cup {KIRO}
    /\ UNCHANGED <<states, timers, activeTimers, timerKey, nextTimer, inflight,
                   authUrlOpened, opened, importing, finished>>
    /\ UNCHANGED oauthOthers

\* startKiroAuth after its await
StartKiroAuthResponse(res) ==
    /\ KIRO \in starting
    /\ starting' = starting \ {KIRO}
    /\ IF res = "throw"
       THEN /\ kiroState' = [status |-> "error", polling |-> FALSE]
            /\ UNCHANGED <<timers, activeTimers, timerKey, nextTimer>>
       ELSE /\ kiroState' = [status |-> "waiting", polling |-> TRUE]
            /\ IF res = "state"
               THEN startPollingEffect(KIRO)
               ELSE UNCHANGED <<timers, activeTimers, timerKey, nextTimer>>
    /\ UNCHANGED <<states, inflight, authUrlOpened, opened, importing, finished>>
    /\ UNCHANGED oauthOthers

\* a callback that opens the authorization URL at every answer that has it
KiroPollResponseReopens(id, res) ==
    /\ timerKey[id] = KIRO
    /\ inflight[id] > 0
    /\ inflight' = [inflight EXCEPT ![id] = @ - 1]
    /\ CASE res = "ok" ->
              /\ kiroState' = [status |-> "success", polling |-> FALSE]
              /\ StopLoop(id)
              /\ finished' = finished \cup {id}
              /\ UNCHANGED <<authUrlOpened, opened>>
         [] res = "device_code" ->
              /\ kiroState' = [kiroState EXCEPT !.status = "device_code"]
              /\ UNCHANGED <<timers, activeTimers, finished, authUrlOpened, opened>>
         [] res \in {"auth_url", "error_auth_url"} ->
              /\ IF opened[id] < 2
                 THEN /\ authUrlOpened' = authUrlOpened \cup {id}
                      /\ opened' = [opened EXCEPT ![id] = @ + 1]
                      /\ kiroState' = [kiroState EXCEPT !.status = "auth_url"]
                 ELSE UNCHANGED <<authUrlOpened, opened, kiroState>>
              /\ UNCHANGED <<timers, activeTimers, finished>>
         [] res \in {"error", "throw"} ->
              /\ kiroState' = [status |-> "error", polling |-> FALSE]
              /\ StopLoop(id)
              /\ finished' = finished \cup {id}
              /\ UNCHANGED <<authUrlOpened, opened>>
         [] OTHER ->
              UNCHANGED <<kiroState, timers, activeTimers, finished, authUrlOpened, opened>>
    /\ UNCHANGED <<states, timerKey, nextTimer, starting, importing>>
    /\ UNCHANGED oauthOthers

\* the callback of startKiroPolling after its await
KiroPollResponse(id, res) ==
    /\ timerKey[id] = KIRO
    /\ inflight[id] > 0
    /\ inflight' = [inflight EXCEPT ![id] = @ - 1]
    /\ CASE res = "ok" ->
              /\ kiroState' = [status |-> "success", polling |-> FALSE]
              /\ StopLoop(id)
              /\ finished' = finished \cup {id}
              /\ UNCHANGED <<authUrlOpened, opened>>
         [] res = "device_code" ->
              /\ kiroState' = [kiroState EXCEPT !.status = "device_code"]
              /\ UNCHANGED <<timers, activeTimers, finished, authUrlOpened, opened>>
         [] res \in {"auth_url", "error_auth_url"} ->
              /\ IF id \notin authUrlOpened
                 THEN /\ authUrlOpened' = authUrlOpened \cup {id}
                      /\ opened' = [opened EXCEPT ![id] = @ + 1]
                      /\ kiroState' = [kiroState EXCEPT !.status = "auth_url"]
                 ELSE UNCHANGED <<authUrlOpened, opened, kiroState>>
              /\ UNCHANGED <<timers, activeTimers, finished>>
         [] res \in {"error", "throw"} ->
              /\ kiroState' = [status |-> "error", polling |-> FALSE]
              /\ StopLoop(id)
              /\ finished' = finished \cup {id}
              /\ UNCHANGED <<authUrlOpened, opened>>
         [] OTHER ->
              UNCHANGED <<kiroState, timers, activeTimers, finished, authUrlOpened, opened>>
    /\ UNCHANGED <<states, timerKey, nextTimer, starting, importing>>
    /\ UNCHANGED oauthOthers

\* the manual import button (rendered while kiroState.polling) up to its await
ManualImportClick ==
    /\ kiroState.polling
    /\ importing = 0
    /\ importing' = 1
    /\ UNCHANGED <<states, kiroState, timers, activeTimers, timerKey, nextTimer,
                   starting, inflight, authUrlOpened, opened, finished>>
    /\ UNCHANGED oauthOthers

\* the manual import button's handler after its await
ManualImportResponse(res) ==
    /\ importing > 0
    /\ importing' = importing - 1
    /\ IF res = "ok"
       THEN /\ kiroState' = [status |-> "success", polling |-> FALSE]
            /\ activeTimers' = {id \in activeTimers : \A k \in TimerKeys : timers[k] # id}
            /\ timers' = [k \in TimerKeys |-> 0]
       ELSE UNCHANGED <<kiroState, activeTimers, timers>>
    /\ UNCHANGED <<states, timerKey, nextTimer, starting, inflight, authUrlOpened, opened, finished>>
    /\ UNCHANGED oauthOthers

OAuthNext ==
    \/ \E p \in PROVIDERS : StartAuthClick(p)
    \/ \E p \in PROVIDERS, res \in StartResults : StartAuthResponse(p, res)
    \/ \E id \in TimerIds : PollTick(id)
    \/ \E id \in TimerIds, p \in PROVIDERS, res \in StatusResults : PollResponse(id, p, res)
    \/ StartKiroAuthClick
    \/ \E res \in StartResults : StartKiroAuthResponse(res)
    \/ \E id \in TimerIds, res \in KiroStatusResults : KiroPollResponse(id, res)
    \/ ManualImportClick
    \/ \E res \in {"ok", "error", "throw"} : ManualImportResponse(res)

(***************************************************************************)
(* Specifications: each component is checked with the others at rest       *)
(***************************************************************************)
(***************************************************************************)
(* utils/kiro/stats.ts                                                     *)
(*                                                                         *)
(* An account is [id, label, status, fileName, usageData]; usageData is    *)
(* <<>> (undefined) or <<u>>.  A subscription title or type is a token     *)
(* sequence (<<>> is '').                                                  *)
(***************************************************************************)
includes(s, p) == Occurrences(s, p) # {}

\* 'active' and its two Chinese spellings (transliterated here)
KIRO_STATUS_ACTIVE == {"active", "zhengchang", "youxiao"}

\* usageData.usageBreakdownList?.[0] || usageData.usageBreakdown || null
getBreakdown(account) ==
    IF account.usageData = <<>> THEN <<>>
    ELSE IF account.usageData[1].usageBreakdownList # <<>>
         THEN <<account.usageData[1].usageBreakdownList[1]>>
         ELSE <<>>

getQuota(account) ==
    IF getBreakdown(account) = <<>> THEN -1 ELSE getBreakdown(account)[1].usageLimit

getUsed(account) ==
    IF getBreakdown(account) = <<>> THEN -1 ELSE getBreakdown(account)[1].currentUsage

getSubType(account) ==
    IF account.usageData = <<>> THEN <<>> ELSE account.usageData[1].subscriptionInfo.type

getSubPlan(account) ==
    IF account.usageData = <<>> THEN <<>>
    ELSE account.usageData[1].subscriptionInfo.subscriptionTitle

isProPlus(account) ==
    \/ includes(getSubType(account), <<"PRO", "_PLUS">>)
    \/ includes(getSubType(account), <<"PRO", "+">>)
    \/ includes(getSubPlan(account), <<"PRO", "+">>)
    \/ includes(toLowerCase(getSubPlan(account)), <<"pro", " plus">>)

isPro(account) ==
    /\ ~isProPlus(account)
    /\ \/ includes(getSubType(account), <<"PRO">>)
       \/ includes(getSubPlan(account), <<"PRO">>)

isFree(account) ==
    IF getSubType(account) = <<>> /\ getSubPlan(account) = <<>> THEN TRUE
    ELSE \/ includes(getSubType(account), <<"FREE">>)
         \/ includes(toLowerCase(getSubPlan(account)), <<"free">>)

isAccountActive(account) == account.status \in KIRO_STATUS_ACTIVE

isAccountExpired(account) == account.status = "expired"

isAccountBanned(account) == account.status = "banned"

\* accounts.filter(P).length
CountOf(list, P(_)) == Cardinality({i \in 1..Len(list) : P(list[i])})

\* accountsWithUsage.reduce((sum, a) => sum + getQuota(a), 0)
RECURSIVE sumQuota(_)
sumQuota(list) ==
    IF list = <<>> THEN 0
    ELSE (IF getQuota(Head(list)) >= 0 THEN getQuota(Head(list)) ELSE 0)
         + sumQuota(Tail(list))

RECURSIVE sumUsed(_)
sumUsed(list) ==
    IF list = <<>> THEN 0
    ELSE (IF getQuota(Head(list)) >= 0 /\ getUsed(Head(list)) >= 0
          THEN getUsed(Head(list)) ELSE 0)
         + sumUsed(Tail(list))

\* Number((used / quota * 100).toFixed(1)), in tenths of a percent: the
\* nearest tenth, the larger one of two equally near
toFixed1(used, quota) == (2000 * used + quota) \div (2 * quota)

calcAccountStats(list) ==
    LET totalQuota == sumQuota(list)
        totalUsed  == sumUsed(list)
    IN  [total        |-> Len(list),
         active       |-> CountOf(list, isAccountActive),
         banned       |-> CountOf(list, isAccountBanned),
         expired      |-> CountOf(list, isAccountExpired),
         proPlus      |-> CountOf(list, isProPlus),
         pro          |-> CountOf(list, isPro),
         free         |-> CountOf(list, isFree),
         totalQuota   |-> totalQuota,
         totalUsed    |-> totalUsed,
         usagePercent |-> IF totalQuota > 0 THEN toFixed1(totalUsed, totalQuota) ELSE 0,
         remaining    |-> totalQuota - totalUsed]

(***************************************************************************)
(* KiroPage (pages/KiroPage.tsx): the cache                                *)
(***************************************************************************)
emptyStats ==
    [total |-> 0, active |-> 0, banned |-> 0, expired |-> 0, proPlus |-> 0,
     pro |-> 0, free |-> 0, totalQuota |-> 0, totalUsed |-> 0, usagePercent |-> 0,
     remaining |-> 0]

\* JSON.stringify writes no key whose value is undefined: the text of an
\* account holds its label and usageData as <<>> (not written) or <<value>>
stringifyAccount(a) ==
    [id        |-> a.id,
     fileName  |-> a.fileName,
     status    |-> a.status,
     label     |-> IF a.label = Undefined THEN <<>> ELSE <<a.label>>,
     usageData |-> a.usageData]

JSONstringify(list) == [i \in 1..Len(list) |-> stringifyAccount(list[i])]

\* JSON.parse: a key the text does not hold reads as undefined
parseAccount(e) ==
    [id        |-> e.id,
     fileName  |-> e.fileName,
     status    |-> e.status,
     label     |-> IF e.label = <<>> THEN Undefined ELSE e.label[1],
     usageData |-> e.usageData]

JSONparse(text) == [i \in 1..Len(text) |-> parseAccount(text[i])]

\* storage item: <<>> (no item) or <<text>>
loadCacheFromStorage(item) ==
    IF item # <<>>
    THEN [accounts |-> JSONparse(item[1]), stats |-> calcAccountStats(JSONparse(item[1]))]
    ELSE [accounts |-> <<>>, stats |-> emptyStats]

\* localStorage.setItem stores the text, or throws when the quota is
\* exceeded, and the throw is swallowed (lines 39-43)
saveCacheToStorage(item, list, full) ==
    IF full THEN item ELSE <<JSONstringify(list)>>

filteredAccountsOf(list, filter) ==
    CASE filter = "all"      -> list
      [] filter = "active"   -> SelectSeq(list, LAMBDA a : a.status = "active")
      [] filter = "abnormal" -> SelectSeq(list, LAMBDA a : a.status \in {"expired", "banned"})
      [] filter = "expired"  -> SelectSeq(list, LAMBDA a : a.status = "expired")
      [] filter = "banned"   -> SelectSeq(list, LAMBDA a : a.status = "banned")
      [] OTHER               -> list

StatusFilters == {"all", "active", "abnormal", "expired", "banned"}

IdsOf(list) == [i \in 1..Len(list) |-> list[i].id]

Elems(s) == {s[i] : i \in 1..Len(s)}

(***************************************************************************)
(* The usage endpoint.  An answer is a response body                       *)
(* [status, current_usage, usage_limit, subscription_title, error], its    *)
(* optional fields <<>> or <<value>>, or a rejection with a message.       *)
(***************************************************************************)
UsageResponse(status, used, limit, title, error) ==
    [kind |-> "response", status |-> status, current_usage |-> used,
     usage_limit |-> limit, subscription_title |-> title, error |-> error,
     message |-> <<>>]

UsageThrow(message) ==
    [kind |-> "throw", status |-> "", current_usage |-> <<>>, usage_limit |-> <<>>,
     subscription_title |-> <<>>, error |-> <<>>, message |-> message]

OK_FULL     == UsageResponse("ok", <<5>>, <<10>>, <<<<"KIRO ", "PRO", "+">>>>, <<>>)
OK_BARE     == UsageResponse("ok", <<>>, <<>>, <<>>, <<>>)
BANNED      == UsageResponse("banned", <<>>, <<>>, <<>>, <<>>)
EXPIRED     == UsageResponse("expired", <<>>, <<>>, <<>>, <<>>)
ERR_EXPIRED == UsageResponse("error", <<>>, <<>>, <<>>, <<<<"token ", "expired">>>>)
ERR_OTHER   == UsageResponse("error", <<>>, <<>>, <<>>, <<<<"rate limited">>>>)
THROW_403   == UsageThrow(<<"Request failed with status code ", "403">>)
THROW_404   == UsageThrow(<<"Request failed with status code ", "404">>)
THROW_NET   == UsageThrow(<<"Network Error">>)

UsageResults == {OK_FULL, OK_BARE, BANNED, EXPIRED, ERR_EXPIRED, ERR_OTHER,
                 THROW_403, THROW_NET}

\* v ?? d
Nullish(v, d) == IF v = <<>> THEN d ELSE v[1]

\* usage.error?.includes('expired')
errorIncludesExpired(usage) ==
    usage.error # <<>> /\ includes(usage.error[1], <<"expired">>)

usageRequest(fileName) == [method |-> "GET", url |-> "/kiro-usage", name |-> fileName]

(***************************************************************************)
(* fetchUsageForAccounts (lines 85-124)                                    *)
(***************************************************************************)
BATCH_SIZE == 10

\* every remaining account at once
batchIndicesAll(accountList, i) == (i + 1)..Len(accountList)

\* accountList.slice(i, i + BATCH_SIZE), as 1-based positions
batchIndices(accountList, i) ==
    {idx \in (i + 1)..(i + BATCH_SIZE) : idx <= Len(accountList)}

\* the positions of a batch whose callback issues a request
batchRequests(accountList, i) ==
    {idx \in batchIndices(accountList, i) : accountList[idx].fileName # <<>>}

\* the batch callback that marks an expired account banned
fetchUsageResultSwapped(result, usage) ==
    IF usage.kind = "throw" THEN result
    ELSE IF usage.status = "ok" THEN result
    ELSE IF usage.status = "banned" THEN [result EXCEPT !.status = "banned"]
    ELSE IF usage.status = "expired" \/ errorIncludesExpired(usage)
         THEN [result EXCEPT !.status = "banned"]
    ELSE result

\* the batch callback that takes every error response for an expired token
fetchUsageResultErrorExpires(result, usage) ==
    IF usage.kind = "throw" THEN result
    ELSE IF usage.status = "ok"
         THEN [result EXCEPT
                 !.status = "active",
                 !.usageData =
                     <<[usageBreakdownList |->
                            <<[currentUsage |-> Nullish(usage.current_usage, 0),
                               usageLimit   |-> Nullish(usage.usage_limit, 0)]>>,
                        subscriptionInfo |->
                            [type |-> <<"subscription">>,
                             subscriptionTitle |->
                                 Nullish(usage.subscription_title, <<"Free">>)]]>>]
    ELSE IF usage.status = "banned" THEN [result EXCEPT !.status = "banned"]
    ELSE IF usage.status = "expired" \/ usage.status = "error"
         THEN [result EXCEPT !.status = "expired"]
    ELSE result

\* what the batch callback makes of results[idx] (lines 93-119)
fetchUsageResult(result, usage) ==
    IF usage.kind = "throw" THEN result
    ELSE IF usage.status = "ok"
         THEN [result EXCEPT
                 !.status = "active",
                 !.usageData =
                     <<[usageBreakdownList |->
                            <<[currentUsage |-> Nullish(usage.current_usage, 0),
                               usageLimit   |-> Nullish(usage.usage_limit, 0)]>>,
                        subscriptionInfo |->
                            [type |-> <<"subscription">>,
                             subscriptionTitle |->
                                 Nullish(usage.subscription_title, <<"Free">>)]]>>]
    ELSE IF usage.status = "banned" THEN [result EXCEPT !.status = "banned"]
    ELSE IF usage.status = "expired" \/ errorIncludesExpired(usage)
         THEN [result EXCEPT !.status = "expired"]
    ELSE result

(***************************************************************************)
(* handleRefresh (lines 151-197): <<>> when updateCache is not called,     *)
(* else <<the list it is called with>>                                     *)
(***************************************************************************)
mapAccount(list, id, f(_)) ==
    [i \in 1..Len(list) |-> IF list[i].id # id THEN list[i] ELSE f(list[i])]

handleRefreshUpdate(list, id, usage) ==
    IF usage.kind = "throw"
    THEN IF includes(usage.message, <<"403">>) \/ includes(usage.message, <<"401">>)
         THEN <<mapAccount(list, id, LAMBDA a : [a EXCEPT !.status = "expired"])>>
         ELSE <<>>
    ELSE IF usage.status = "ok"
         THEN <<mapAccount(list, id, LAMBDA a :
                  [a EXCEPT
                     !.status = "active",
                     !.usageData =
                         <<[usageBreakdownList |->
                                <<[currentUsage |-> Nullish(usage.current_usage, 0),
                                   usageLimit   |-> Nullish(usage.usage_limit, 0)]>>,
                            subscriptionInfo |->
                                [type |-> <<"subscription">>,
                                 subscriptionTitle |->
                                     Nullish(usage.subscription_title, <<"Free">>)]]>>])>>
    ELSE IF usage.status = "banned"
         THEN <<mapAccount(list, id, LAMBDA a : [a EXCEPT !.status = "banned"])>>
    ELSE IF usage.status = "expired" \/ errorIncludesExpired(usage)
         THEN <<mapAccount(list, id, LAMBDA a : [a EXCEPT !.status = "expired"])>>
    ELSE <<>>

\* accounts.find((a) => a.id === id): <<>> or <<account>>
findAccount(list, id) ==
    IF \E i \in 1..Len(list) : list[i].id = id
    THEN <<list[Min({i \in 1..Len(list) : list[i].id = id})]>>
    ELSE <<>>

(***************************************************************************)
(* KiroPage: the page, its handlers and the requests they await            *)
(***************************************************************************)
MaxFiles      == 2
MaxClicks     == 4
BatchAccounts == 12

PageFileName(i) == <<"kiro-", ToString(i), ".json">>

\* the names of the files the backend may hold
PoolNames == {PageFileName(i) : i \in 1..MaxFiles}

\* the names of the files of a list longer than one batch
PageNames == {PageFileName(i) : i \in 1..BatchAccounts}

\* the status the listing reports for the i-th file of the pool
PageFileStatus(i) == IF i % 2 = 0 THEN "expired" ELSE ""

PageFile(i) == [name |-> PageFileName(i), status |-> PageFileStatus(i), label |-> Undefined]

\* the listings the backend may hold when the application is opened: the
\* first k files of the pool
PageListings == {[i \in 1..k |-> PageFile(i)] : k \in 0..MaxFiles}

FileExists(fs, name) == \E i \in 1..Len(fs) : fs[i].name = name

\* the answers a usage request for a file can get
UsageAnswersFor(name) ==
    IF FileExists(files, name) THEN usageAnswers[name] ELSE {THROW_404}

\* the setters of an unmounted page instance do nothing
Live(op) == mounted /\ op.inst = mounts

\* the state of a KiroAccountList that was just rendered (lines 50-52)
ListInit ==
    /\ searchTerm = <<>>
    /\ currentPage = 1
    /\ viewMode = "card"

PAGE_SIZE_CARD  == 15
PAGE_SIZE_TABLE == 20

\* pageSize (line 53)
pageSize == IF viewMode = "card" THEN PAGE_SIZE_CARD ELSE PAGE_SIZE_TABLE

\* the email getAccounts gives a listed account: file.email ||
\* extractIdFromFileName(file.name) (kiro.ts lines 21-28, 148); the files
\* modelled carry no email and their names have fewer than two hyphens, so
\* it is the name without its first '.json'
emailOf(account) ==
    IF account.fileName = <<>> THEN <<>> ELSE replaceFirst(account.fileName, JSON_EXT)

\* the search of KiroAccountList (lines 55-63); the terms modelled have no
\* white space around them
searchMatches(account, term) ==
    \/ includes(toLowerCase(emailOf(account)), toLowerCase(term))
    \/ /\ account.label # Undefined
       /\ includes(toLowerCase(<<account.label>>), toLowerCase(term))

listFilteredAccounts(list, term) ==
    IF term = <<>> THEN list ELSE SelectSeq(list, LAMBDA a : searchMatches(a, term))

\* Math.ceil(filteredAccounts.length / pageSize) || 1 (line 65)
totalPagesOf(n, size) == IF n = 0 THEN 1 ELSE (n + size - 1) \div size

\* filteredAccounts.slice((currentPage - 1) * pageSize, currentPage * pageSize)
sliceOf(list, from, to) ==
    IF from >= Len(list) THEN <<>> ELSE SubSeq(list, from + 1, Min({to, Len(list)}))

\* what the list component is given and what it shows
listAccounts == listFilteredAccounts(filteredAccountsOf(accounts, statusFilter), searchTerm)

totalPages == totalPagesOf(Len(listAccounts), pageSize)

paginatedAccounts ==
    sliceOf(listAccounts, (currentPage - 1) * pageSize, currentPage * pageSize)

\* KiroAccountList renders its toolbar (import, refresh-all, select-all,
\* batch delete) when it is not loading and the list it is given, the
\* filtered accounts, is not empty (KiroAccountList lines 77-104)
toolbarShown ==
    mounted /\ ~loading /\ Len(filteredAccountsOf(accounts, statusFilter)) > 0

\* module load (lines 45-47) and a page that is not mounted
PageInit ==
    /\ mounted = FALSE
    /\ mounts = 0
    /\ clicks = 0
    /\ cachedAccounts = loadCacheFromStorage(storage).accounts
    /\ cachedStats = loadCacheFromStorage(storage).stats
    /\ accounts = <<>>
    /\ stats = emptyStats
    /\ loading = TRUE
    /\ refreshingId = <<>>
    /\ refreshingAll = FALSE
    /\ selectedIds = <<>>
    /\ deleteModalOpen = FALSE
    /\ deleteTarget = <<>>
    /\ statusFilter = "all"
    /\ loads = {}
    /\ refreshes = {}
    /\ refreshAlls = {}
    /\ deleting = {}
    /\ issued = <<>>
    /\ notified = <<>>
    /\ ListInit

\* a loadAccounts that never answers from the cache
loadForcedAlways(forceRefresh, cache) == TRUE

\* loadAccounts (lines 127-132): whether it goes to the backend
loadForced(forceRefresh, cache) == ~(~forceRefresh /\ Len(cache) > 0)

\* updateCache (lines 77-83)
updateCache(newAccounts, live) ==
    /\ cachedAccounts' = newAccounts
    /\ cachedStats' = calcAccountStats(newAccounts)
    /\ storage' = saveCacheToStorage(storage, newAccounts, storageFull)
    /\ accounts' = IF live THEN newAccounts ELSE accounts
    /\ stats' = IF live THEN cachedStats' ELSE stats

\* KiroPage is rendered and its mount effect runs
\* loadAccounts(cachedAccounts.length === 0) (lines 55-66, 126-149)
Mount ==
    /\ ~mounted
    /\ clicks < MaxClicks
    /\ clicks' = clicks + 1
    /\ mounted' = TRUE
    /\ mounts' = mounts + 1
    /\ IF ~loadForced(Len(cachedAccounts) = 0, cachedAccounts)
       THEN /\ accounts' = cachedAccounts
            /\ stats' = cachedStats
            /\ loading' = FALSE
            /\ issued' = <<>>
            /\ notified' = <<>>
            /\ UNCHANGED loads
       ELSE /\ loading' = TRUE
            /\ loads' = loads \cup
                   {[n |-> clicks + 1, inst |-> mounts + 1, from |-> "mount"]}
            /\ issued' = getAccountsRequests
            /\ notified' = <<>>
            /\ UNCHANGED <<accounts, stats>>
    /\ UNCHANGED <<cachedAccounts, cachedStats, storage, uiVars, refreshes, refreshAlls,
                   deleting, usageAnswers, storageFull, files>>
    /\ UNCHANGED pageOthers

\* the user leaves the page: its state is dropped, its requests go on
Unmount ==
    /\ mounted
    /\ clicks < MaxClicks
    /\ clicks' = clicks + 1
    /\ mounted' = FALSE
    /\ accounts' = <<>>
    /\ stats' = emptyStats
    /\ loading' = TRUE
    /\ refreshingId' = <<>>
    /\ refreshingAll' = FALSE
    /\ selectedIds' = <<>>
    /\ deleteModalOpen' = FALSE
    /\ deleteTarget' = <<>>
    /\ statusFilter' = "all"
    /\ issued' = <<>>
    /\ notified' = <<>>
    /\ searchTerm' = <<>>
    /\ currentPage' = 1
    /\ viewMode' = "card"
    /\ UNCHANGED <<mounts, cachedAccounts, cachedStats, storage, opVars, usageAnswers,
                   storageFull, files>>
    /\ UNCHANGED <<apiAccounts, apiListed, requests, getCalls, deletes, exports, deleteCall,
                   importVars, oauthVars>>

\* a reload that keeps the status and usageData of the accounts it knows
reloadedAccountsMerged(data, cache) ==
    [i \in 1..Len(data) |->
        IF findAccount(cache, data[i].id) # <<>>
        THEN [data[i] EXCEPT !.status = findAccount(cache, data[i].id)[1].status,
                             !.usageData = findAccount(cache, data[i].id)[1].usageData]
        ELSE data[i]]

\* what loadAccounts passes to updateCache (line 137): the listing
reloadedAccounts(data, cache) == data

\* a loadAccounts whose failed request empties the cache
LoadResponseClears(op, ok) ==
    /\ op \in loads
    /\ loads' = loads \ {op}
    /\ IF ok
       THEN updateCache(reloadedAccounts(AccountsOf(files), cachedAccounts), Live(op))
       ELSE updateCache(<<>>, Live(op))
    /\ loading' = IF Live(op) THEN FALSE ELSE loading
    /\ deleteModalOpen' = IF Live(op) /\ op.from = "delete" THEN FALSE ELSE deleteModalOpen
    /\ deleteTarget' = IF Live(op) /\ op.from = "delete" THEN <<>> ELSE deleteTarget
    /\ issued' = <<>>
    /\ notified' = IF ok THEN <<>> ELSE <<"error">>
    /\ UNCHANGED <<mounted, mounts, clicks, refreshingId, refreshingAll, selectedIds,
                   statusFilter, refreshes, refreshAlls, deleting, usageAnswers, storageFull, files>>
    /\ UNCHANGED pageOthers

\* loadAccounts after its await (lines 136-142), and for a load started by
\* handleDeleteConfirm the finally of that handler (lines 264-267)
LoadResponse(op, ok) ==
    /\ op \in loads
    /\ loads' = loads \ {op}
    /\ IF ok
       THEN updateCache(reloadedAccounts(AccountsOf(files), cachedAccounts), Live(op))
       ELSE UNCHANGED cacheVars
    /\ loading' = IF Live(op) THEN FALSE ELSE loading
    /\ deleteModalOpen' = IF Live(op) /\ op.from = "delete" THEN FALSE ELSE deleteModalOpen
    /\ deleteTarget' = IF Live(op) /\ op.from = "delete" THEN <<>> ELSE deleteTarget
    /\ issued' = <<>>
    /\ notified' = IF ok THEN <<>> ELSE <<"error">>
    /\ UNCHANGED <<mounted, mounts, clicks, refreshingId, refreshingAll, selectedIds,
                   statusFilter, refreshes, refreshAlls, deleting, usageAnswers, storageFull, files>>
    /\ UNCHANGED pageOthers

\* handleRefresh to its await (lines 151-156)
HandleRefresh(id) ==
    /\ mounted /\ ~loading /\ ~deleteModalOpen
    /\ clicks < MaxClicks
    /\ id \in Elems(IdsOf(paginatedAccounts))
    /\ refreshingId # <<id>>
    /\ clicks' = clicks + 1
    /\ LET account == findAccount(accounts, id)
       IN  IF account # <<>> /\ account[1].fileName # <<>>
           THEN /\ refreshingId' = <<id>>
                /\ refreshes' = refreshes \cup
                       {[n |-> clicks + 1, inst |-> mounts, id |-> id,
                         fileName |-> account[1].fileName, accounts |-> accounts]}
                /\ issued' = <<usageRequest(account[1].fileName)>>
                /\ notified' = <<>>
           ELSE /\ refreshingId' = <<>>
                /\ issued' = <<>>
                /\ notified' = <<"success">>
                /\ UNCHANGED refreshes
    /\ UNCHANGED <<mounted, mounts, cacheVars, loading, refreshingAll, selectedIds,
                   deleteModalOpen, deleteTarget, statusFilter, loads, refreshAlls,
                   deleting, usageAnswers, storageFull, files>>
    /\ UNCHANGED pageOthers

\* the notification handleRefresh shows (lines 184-193)
handleRefreshNotification(usage) ==
    IF usage.kind = "throw" THEN <<"error">> ELSE <<"success">>

\* handleRefresh after its await (lines 157-196)
RefreshResponse(op, usage) ==
    /\ op \in refreshes
    /\ usage \in UsageAnswersFor(op.fileName)
    /\ refreshes' = refreshes \ {op}
    /\ LET update == handleRefreshUpdate(op.accounts, op.id, usage)
       IN  IF update # <<>>
           THEN updateCache(update[1], Live(op))
           ELSE UNCHANGED cacheVars
    /\ refreshingId' = IF Live(op) THEN <<>> ELSE refreshingId
    /\ issued' = <<>>
    /\ notified' = handleRefreshNotification(usage)
    /\ UNCHANGED <<mounted, mounts, clicks, loading, refreshingAll, selectedIds,
                   deleteModalOpen, deleteTarget, statusFilter, loads, refreshAlls,
                   deleting, usageAnswers, storageFull, files>>
    /\ UNCHANGED pageOthers

\* the requests of the batch that starts after position i, in list order
RECURSIVE batchIssued(_, _)
batchIssued(accountList, indices) ==
    IF indices = {} THEN <<>>
    ELSE <<usageRequest(accountList[Min(indices)].fileName)>>
         \o batchIssued(accountList, indices \ {Min(indices)})

\* handleRefreshAll, fetchUsageForAccounts to the first await (lines 199-202,
\* 85-121); every batch of the lists modelled holds an account with a file
\* name, so a batch of a non-empty list awaits at least one request
HandleRefreshAll ==
    /\ toolbarShown /\ ~deleteModalOpen
    /\ ~refreshingAll
    /\ clicks < MaxClicks
    /\ clicks' = clicks + 1
    /\ IF batchRequests(accounts, 0) # {}
       THEN /\ refreshingAll' = TRUE
            /\ refreshAlls' = refreshAlls \cup
                   {[n |-> clicks + 1, inst |-> mounts, accountList |-> accounts,
                     results |-> accounts, i |-> 0,
                     pending |-> batchRequests(accounts, 0)]}
            /\ issued' = batchIssued(accounts, batchRequests(accounts, 0))
            /\ notified' = <<>>
       ELSE /\ refreshingAll' = FALSE
            /\ issued' = <<>>
            /\ notified' = <<"success">>
            /\ UNCHANGED refreshAlls
    /\ UNCHANGED <<mounted, mounts, cacheVars, loading, refreshingId, selectedIds,
                   deleteModalOpen, deleteTarget, statusFilter, loads, refreshes,
                   deleting, usageAnswers, storageFull, files>>
    /\ UNCHANGED pageOthers

\* one request of a batch settles (lines 94-119); when it is the last of its
\* batch, Promise.allSettled resolves: updateCache, then the next batch or the
\* end of handleRefreshAll (lines 121-123, 203-208)
RefreshAllResponse(op, idx, usage) ==
    /\ op \in refreshAlls
    /\ idx \in op.pending
    /\ usage \in UsageAnswersFor(op.accountList[idx].fileName)
    /\ LET results == [op.results EXCEPT ![idx] = fetchUsageResult(op.results[idx], usage)]
           pending == op.pending \ {idx}
           next    == op.i + BATCH_SIZE
       IN  IF pending # {}
           THEN /\ refreshAlls' = (refreshAlls \ {op}) \cup
                       {[op EXCEPT !.results = results, !.pending = pending]}
                /\ issued' = <<>>
                /\ notified' = <<>>
                /\ UNCHANGED <<cacheVars, refreshingAll>>
           ELSE /\ updateCache(results, Live(op))
                /\ IF next < Len(op.accountList)
                   THEN /\ refreshAlls' = (refreshAlls \ {op}) \cup
                               {[op EXCEPT !.results = results, !.i = next,
                                           !.pending = batchRequests(op.accountList, next)]}
                        /\ issued' = batchIssued(op.accountList,
                                                 batchRequests(op.accountList, next))
                        /\ notified' = <<>>
                        /\ UNCHANGED refreshingAll
                   ELSE /\ refreshAlls' = refreshAlls \ {op}
                        /\ issued' = <<>>
                        /\ notified' = <<"success">>
                        /\ refreshingAll' = IF Live(op) THEN FALSE ELSE refreshingAll
    /\ UNCHANGED <<mounted, mounts, clicks, loading, refreshingId, selectedIds,
                   deleteModalOpen, deleteTarget, statusFilter, loads, refreshes,
                   deleting, usageAnswers, storageFull, files>>
    /\ UNCHANGED pageOthers

\* handleDeleteClick (lines 211-214)
HandleDeleteClick(id) ==
    /\ mounted /\ ~loading /\ ~deleteModalOpen
    /\ clicks < MaxClicks
    /\ id \in Elems(IdsOf(paginatedAccounts))
    /\ clicks' = clicks + 1
    /\ deleteTarget' = <<[type |-> "single", id |-> id]>>
    /\ deleteModalOpen' = TRUE
    /\ issued' = <<>>
    /\ notified' = <<>>
    /\ UNCHANGED <<mounted, mounts, cacheVars, loading, refreshingId, refreshingAll,
                   selectedIds, statusFilter, opVars, usageAnswers, storageFull, files>>
    /\ UNCHANGED pageOthers

\* handleBatchDeleteClick (lines 216-220)
HandleBatchDeleteClick ==
    /\ toolbarShown /\ ~deleteModalOpen
    /\ clicks < MaxClicks
    /\ ~(Len(selectedIds) = 0)
    /\ clicks' = clicks + 1
    /\ deleteTarget' = <<[type |-> "batch", id |-> <<>>]>>
    /\ deleteModalOpen' = TRUE
    /\ issued' = <<>>
    /\ notified' = <<>>
    /\ UNCHANGED <<mounted, mounts, cacheVars, loading, refreshingId, refreshingAll,
                   selectedIds, statusFilter, opVars, usageAnswers, storageFull, files>>
    /\ UNCHANGED pageOthers

\* handleDeleteExpired (lines 222-226)
HandleDeleteExpired ==
    /\ mounted /\ ~deleteModalOpen
    /\ clicks < MaxClicks
    /\ ~(stats.expired = 0)
    /\ clicks' = clicks + 1
    /\ deleteTarget' = <<[type |-> "expired", id |-> <<>>]>>
    /\ deleteModalOpen' = TRUE
    /\ issued' = <<>>
    /\ notified' = <<>>
    /\ UNCHANGED <<mounted, mounts, cacheVars, loading, refreshingId, refreshingAll,
                   selectedIds, statusFilter, opVars, usageAnswers, storageFull, files>>
    /\ UNCHANGED pageOthers

\* handleDeleteAbnormal (lines 228-233)
HandleDeleteAbnormal ==
    /\ mounted /\ ~deleteModalOpen
    /\ clicks < MaxClicks
    /\ ~(stats.expired + stats.banned = 0)
    /\ clicks' = clicks + 1
    /\ deleteTarget' = <<[type |-> "abnormal", id |-> <<>>]>>
    /\ deleteModalOpen' = TRUE
    /\ issued' = <<>>
    /\ notified' = <<>>
    /\ UNCHANGED <<mounted, mounts, cacheVars, loading, refreshingId, refreshingAll,
                   selectedIds, statusFilter, opVars, usageAnswers, storageFull, files>>
    /\ UNCHANGED pageOthers

\* the confirmation modal's onClose and its cancel button (lines 351, 355)
CloseDeleteModal ==
    /\ mounted /\ deleteModalOpen
    /\ clicks < MaxClicks
    /\ clicks' = clicks + 1
    /\ deleteModalOpen' = FALSE
    /\ issued' = <<>>
    /\ notified' = <<>>
    /\ UNCHANGED <<mounted, mounts, cacheVars, loading, refreshingId, refreshingAll,
                   selectedIds, deleteTarget, statusFilter, opVars, usageAnswers, storageFull, files>>
    /\ UNCHANGED pageOthers

\* handleFilterByStatus (lines 235-238)
HandleFilterByStatus(status) ==
    /\ mounted /\ ~deleteModalOpen
    /\ clicks < MaxClicks
    /\ clicks' = clicks + 1
    /\ statusFilter' = status
    /\ selectedIds' = <<>>
    /\ issued' = <<>>
    /\ notified' = <<>>
    /\ UNCHANGED <<mounted, mounts, cacheVars, loading, refreshingId, refreshingAll,
                   deleteModalOpen, deleteTarget, opVars, usageAnswers, storageFull, files>>
    /\ UNCHANGED pageOthers

\* the filter banner's clear button (line 327)
ClearFilter ==
    /\ mounted /\ ~deleteModalOpen
    /\ clicks < MaxClicks
    /\ statusFilter # "all"
    /\ clicks' = clicks + 1
    /\ statusFilter' = "all"
    /\ issued' = <<>>
    /\ notified' = <<>>
    /\ UNCHANGED <<mounted, mounts, cacheVars, loading, refreshingId, refreshingAll,
                   selectedIds, deleteModalOpen, deleteTarget, opVars, usageAnswers,
                   storageFull, files>>
    /\ UNCHANGED pageOthers

\* handleSelect (lines 270-274), from the checkbox of a listed account
HandleSelect(id, selected) ==
    /\ mounted /\ ~loading /\ ~deleteModalOpen
    /\ clicks < MaxClicks
    /\ id \in Elems(IdsOf(paginatedAccounts))
    /\ selected = (id \notin Elems(selectedIds))
    /\ clicks' = clicks + 1
    /\ selectedIds' = IF selected THEN Append(selectedIds, id)
                      ELSE SelectSeq(selectedIds, LAMBDA i : i # id)
    /\ issued' = <<>>
    /\ notified' = <<>>
    /\ UNCHANGED <<mounted, mounts, cacheVars, loading, refreshingId, refreshingAll,
                   deleteModalOpen, deleteTarget, statusFilter, opVars, usageAnswers,
                   storageFull, files>>
    /\ UNCHANGED pageOthers

\* the select-all checkbox is checked when every account of the page shown
\* is selected (KiroAccountList line 71)
allSelected ==
    LET listed == IdsOf(paginatedAccounts)
    IN  Len(listed) > 0 /\ Elems(listed) \subseteq Elems(selectedIds)

\* handleSelectAll (lines 276-278)
HandleSelectAll(selected) ==
    /\ toolbarShown /\ ~deleteModalOpen
    /\ clicks < MaxClicks
    /\ selected = ~allSelected
    /\ clicks' = clicks + 1
    /\ selectedIds' = IF selected THEN IdsOf(filteredAccountsOf(accounts, statusFilter))
                      ELSE <<>>
    /\ issued' = <<>>
    /\ notified' = <<>>
    /\ UNCHANGED <<mounted, mounts, cacheVars, loading, refreshingId, refreshingAll,
                   deleteModalOpen, deleteTarget, statusFilter, opVars, usageAnswers,
                   storageFull, files>>
    /\ UNCHANGED pageOthers

\* a confirmation that takes every account for the expired ones
confirmedIdsAll(target, list, selected) ==
    CASE target.type = "single"   -> IF target.id # <<>> THEN <<target.id>> ELSE <<>>
      [] target.type = "batch"    -> selected
      [] target.type = "expired"  -> IdsOf(list)
      [] target.type = "abnormal" ->
             IdsOf(SelectSeq(list, LAMBDA a : a.status = "expired" \/ a.status = "banned"))

\* the ids handleDeleteConfirm passes to kiroApi (lines 244-257)
confirmedIds(target, list, selected) ==
    CASE target.type = "single"   -> IF target.id # <<>> THEN <<target.id>> ELSE <<>>
      [] target.type = "batch"    -> selected
      [] target.type = "expired"  ->
             IdsOf(SelectSeq(list, LAMBDA a : a.status = "expired"))
      [] target.type = "abnormal" ->
             IdsOf(SelectSeq(list, LAMBDA a : a.status = "expired" \/ a.status = "banned"))

\* a handleDeleteConfirm that reloads without resetting the status filter
afterDeletesKeepsFilter(op) ==
    /\ selectedIds' = IF Live(op) /\ op.type = "batch" THEN <<>> ELSE selectedIds
    /\ statusFilter' = statusFilter
    /\ loading' = IF Live(op) THEN TRUE ELSE loading
    /\ loads' = loads \cup {[n |-> op.n, inst |-> op.inst, from |-> "delete"]}
    /\ issued' = getAccountsRequests
    /\ notified' = <<"success">>

\* handleDeleteConfirm once its deletes are done (lines 250, 260-261), to
\* the await of loadAccounts(true) (lines 134-136)
afterDeletes(op) ==
    /\ selectedIds' = IF Live(op) /\ op.type = "batch" THEN <<>> ELSE selectedIds
    /\ statusFilter' = IF Live(op) THEN "all" ELSE statusFilter
    /\ loading' = IF Live(op) THEN TRUE ELSE loading
    /\ loads' = loads \cup {[n |-> op.n, inst |-> op.inst, from |-> "delete"]}
    /\ issued' = getAccountsRequests
    /\ notified' = <<"success">>

\* handleDeleteConfirm to its first await (lines 240-257)
HandleDeleteConfirm ==
    /\ mounted /\ deleteModalOpen
    /\ deleteTarget # <<>>
    /\ clicks < MaxClicks
    /\ clicks' = clicks + 1
    /\ LET ids == confirmedIds(deleteTarget[1], accounts, selectedIds)
           op  == [n |-> clicks + 1, inst |-> mounts, type |-> deleteTarget[1].type,
                   ids |-> ids, k |-> 1]
       IN  IF ids = <<>>
           THEN afterDeletes(op) /\ UNCHANGED deleting
           ELSE /\ deleting' = deleting \cup {op}
                /\ issued' = <<deleteAccountRequest(ids[1])>>
                /\ notified' = <<>>
                /\ UNCHANGED <<selectedIds, statusFilter, loading, loads>>
    /\ UNCHANGED <<mounted, mounts, cacheVars, refreshingId, refreshingAll,
                   deleteModalOpen, deleteTarget, refreshes, refreshAlls, usageAnswers,
                   storageFull, files>>
    /\ UNCHANGED pageOthers

\* the backend answers the DELETE a confirmation awaits: kiroApi.deleteAccount
\* rejects (single: lines 262-267) or kiroApi.deleteAccounts goes on with its
\* next id (kiro.ts lines 188-195)
DeleteResponse(op, ok) ==
    /\ op \in deleting
    /\ files' = IF ok THEN RemoveFile(files, deleteAccountFileName(op.ids[op.k]))
                ELSE files
    /\ IF op.type = "single" /\ ~ok
       THEN /\ deleting' = deleting \ {op}
            /\ deleteModalOpen' = IF Live(op) THEN FALSE ELSE deleteModalOpen
            /\ deleteTarget' = IF Live(op) THEN <<>> ELSE deleteTarget
            /\ issued' = <<>>
            /\ notified' = <<"error">>
            /\ UNCHANGED <<selectedIds, statusFilter, loading, loads>>
       ELSE IF op.k < Len(op.ids)
       THEN /\ deleting' = (deleting \ {op}) \cup {[op EXCEPT !.k = op.k + 1]}
            /\ issued' = <<deleteAccountRequest(op.ids[op.k + 1])>>
            /\ notified' = <<>>
            /\ UNCHANGED <<selectedIds, statusFilter, loading, loads, deleteModalOpen,
                           deleteTarget>>
       ELSE /\ deleting' = deleting \ {op}
            /\ afterDeletes(op)
            /\ UNCHANGED <<deleteModalOpen, deleteTarget>>
    /\ UNCHANGED <<mounted, mounts, clicks, cacheVars, refreshingId, refreshingAll,
                   refreshes, refreshAlls, usageAnswers, storageFull>>
    /\ UNCHANGED pageOthers

\* handleImportComplete (lines 280-282), loadAccounts(true) to its await
HandleImportComplete ==
    /\ mounted
    /\ clicks < MaxClicks
    /\ clicks' = clicks + 1
    /\ loading' = TRUE
    /\ loads' = loads \cup {[n |-> clicks + 1, inst |-> mounts, from |-> "import"]}
    /\ issued' = getAccountsRequests
    /\ notified' = <<>>
    /\ UNCHANGED <<mounted, mounts, cacheVars, uiVars, refreshes, refreshAlls, deleting,
                   usageAnswers, storageFull, files>>
    /\ UNCHANGED pageOthers

\* the backend stores a new auth file (an import, or another client)
BackendImport ==
    /\ Len(files) < MaxFiles
    /\ \E i \in 1..MaxFiles :
          /\ ~FileExists(files, PageFileName(i))
          /\ \A j \in 1..(i - 1) : FileExists(files, PageFileName(j))
          /\ files' = Append(files, PageFile(i))
    /\ issued' = <<>>
    /\ notified' = <<>>
    /\ UNCHANGED <<mounted, mounts, clicks, cacheVars, loading, uiVars, opVars,
                   usageAnswers, storageFull>>
    /\ UNCHANGED pageOthers

(***************************************************************************)
(* KiroImportModal inside KiroPage: opening, closing, handleImport         *)
(***************************************************************************)
MaxImports == 2
MaxResets  == 1

importRequest == [method |-> "POST", url |-> "/import-kiro-accounts", name |-> <<>>]

\* the answers to POST /import-kiro-accounts: the request fails, the body is
\* no object, or it is an object whose success and duplicate counts and
\* results array are present or not
ImportResponses ==
    {[kind |-> k, success |-> <<>>, duplicate |-> <<>>, results |-> <<>>] :
        k \in {"reject", "null"}}
    \cup [kind : {"object"}, success : {<<>>, <<0>>, <<1>>}, duplicate : {<<>>, <<1>>},
          results : {<<>>, << <<>> >>, << <<"success">> >>, << <<"duplicate", "failed">> >>}]

\* results.filter((r) => r.status === status).length, results being
\* response.results || []
countResults(res, status) ==
    IF res.results = <<>> THEN 0
    ELSE Cardinality({i \in 1..Len(res.results[1]) : res.results[1][i] = status})

\* response.success ?? results.filter(...).length (line 132)
successNum(res) ==
    IF res.success # <<>> THEN res.success[1] ELSE countResults(res, "success")

\* response.duplicate ?? results.filter(...).length (line 133)
duplicateNum(res) ==
    IF res.duplicate # <<>> THEN res.duplicate[1] ELSE countResults(res, "duplicate")

\* the notification handleImport shows (lines 138-151)
importNotification(res) ==
    IF res.kind # "object" THEN <<"error">>
    ELSE IF successNum(res) > 0 THEN <<"success">>
    ELSE IF duplicateNum(res) > 0 THEN <<"warning">>
    ELSE <<"info">>

reloadAfterImportAlways(res) == TRUE

\* whether handleImport calls onImportComplete (lines 127-140)
reloadAfterImport(res) == res.kind = "object" /\ successNum(res) > 0

\* the import button of the list's toolbar
OpenImportModal ==
    /\ toolbarShown
    /\ ~deleteModalOpen /\ ~importModalOpen
    /\ importModalOpen' = TRUE
    /\ issued' = <<>>
    /\ notified' = <<>>
    /\ UNCHANGED <<phase, jsonText, parseResult, resetTimers, importRequests,
                   importCount, importSent>>
    /\ UNCHANGED fileReads
    /\ UNCHANGED <<mounted, mounts, clicks, cacheVars, loading, uiVars, opVars,
                   usageAnswers, storageFull>>
    /\ UNCHANGED <<apiVars, oauthVars, listVars>>

\* onClose: the modal's effect starts its 300 ms timer (lines 35-46)
CloseImportModal ==
    /\ mounted /\ importModalOpen
    /\ resetTimers < MaxResets
    /\ importModalOpen' = FALSE
    /\ resetTimers' = resetTimers + 1
    /\ issued' = <<>>
    /\ notified' = <<>>
    /\ UNCHANGED <<phase, jsonText, parseResult, importRequests, importCount, importSent>>
    /\ UNCHANGED fileReads
    /\ UNCHANGED <<mounted, mounts, clicks, cacheVars, loading, uiVars, opVars,
                   usageAnswers, storageFull>>
    /\ UNCHANGED <<apiVars, oauthVars, listVars>>

\* the timer fires: the modal goes back to its initial state
ImportResetTimeout ==
    /\ resetTimers > 0
    /\ resetTimers' = resetTimers - 1
    /\ phase' = "upload"
    /\ jsonText' = [kind |-> "blank", isArray |-> FALSE, items |-> <<>>]
    /\ parseResult' = <<>>
    /\ issued' = <<>>
    /\ notified' = <<>>
    /\ UNCHANGED <<importModalOpen, importRequests, importCount, importSent>>
    /\ UNCHANGED fileReads
    /\ UNCHANGED <<mounted, mounts, clicks, cacheVars, loading, uiVars, opVars,
                   usageAnswers, storageFull>>
    /\ UNCHANGED <<apiVars, oauthVars, listVars>>

\* handleImport to its await (lines 112-123); the button is rendered in phase
\* 'preview' when parseResult is set
handleImport ==
    /\ mounted /\ importModalOpen
    /\ phase = "preview" /\ parseResult # <<>>
    /\ importCount < MaxImports
    /\ IF Len(parseResult[1].valid) = 0
       THEN /\ issued' = <<>>
            /\ notified' = <<>>
            /\ UNCHANGED <<phase, importRequests, importCount, importSent>>
       ELSE /\ phase' = "importing"
            /\ importCount' = importCount + 1
            /\ importRequests' = importRequests \cup
                   {[n |-> importCount + 1, inst |-> mounts]}
            /\ importSent' = <<parseResult[1].valid>>
            /\ issued' = <<importRequest>>
            /\ notified' = <<>>
    /\ UNCHANGED <<jsonText, parseResult, importModalOpen, resetTimers>>
    /\ UNCHANGED fileReads
    /\ UNCHANGED <<mounted, mounts, clicks, cacheVars, loading, uiVars, opVars,
                   usageAnswers, storageFull>>
    /\ UNCHANGED <<apiVars, oauthVars, listVars>>

\* handleImport after its await (lines 124-153); onImportComplete is the
\* page's handleImportComplete, loadAccounts(true) to its await (KiroPage
\* lines 280-282, 126-134)
ImportResponse(op, res) ==
    /\ op \in importRequests
    /\ importRequests' = importRequests \ {op}
    /\ phase' = IF ~Live(op) THEN phase
                ELSE IF res.kind = "object" THEN "complete" ELSE "preview"
    /\ IF reloadAfterImport(res)
       THEN /\ loading' = IF Live(op) THEN TRUE ELSE loading
            /\ loads' = loads \cup {[n |-> op.n, inst |-> op.inst, from |-> "modal"]}
            /\ issued' = getAccountsRequests
            /\ notified' = importNotification(res)
       ELSE /\ issued' = <<>>
            /\ notified' = importNotification(res)
            /\ UNCHANGED <<loading, loads>>
    /\ UNCHANGED <<jsonText, parseResult, importModalOpen, resetTimers, importCount,
                   importSent>>
    /\ UNCHANGED fileReads
    /\ UNCHANGED <<mounted, mounts, clicks, cacheVars, uiVars, refreshes, refreshAlls,
                   deleting, usageAnswers, storageFull>>
    /\ UNCHANGED <<apiVars, oauthVars, listVars>>

\* the modal and its parser on every text
ImportNext ==
    \/ \E text \in Texts : handlePaste(text)
    \/ handleBack
    \/ OpenImportModal
    \/ CloseImportModal
    \/ ImportResetTimeout

\* the texts pasted in the import workflow: no JSON, a list of a valid and an
\* invalid entry, one valid object, a list of two valid entries
ModalTexts ==
    {[kind |-> "garbage", isArray |-> FALSE, items |-> <<>>],
     [kind |-> "json", isArray |-> TRUE,
      items |-> <<[email |-> JString(<<"a@x">>), refreshToken |-> JString(<<"aor", "1">>)],
                  [email |-> JUndefined, refreshToken |-> JString(<<"x", "aor">>)]>>],
     [kind |-> "json", isArray |-> FALSE,
      items |-> <<[email |-> JUndefined, refreshToken |-> JString(<<"aor", "2">>)]>>],
     [kind |-> "json", isArray |-> TRUE,
      items |-> <<[email |-> JUndefined, refreshToken |-> JString(<<"aor", "2">>)],
                  [email |-> JString(<<"a@x">>), refreshToken |-> JString(<<"aor", "1">>)]>>]}

MaxReads == 1

\* handleFileSelect (lines 74-86): the drop zone and the file input are
\* rendered in phase 'upload'; the FileReader starts to read the file
handleFileSelect(text) ==
    /\ mounted /\ importModalOpen
    /\ phase = "upload"
    /\ Cardinality(fileReads) < MaxReads
    /\ text \notin fileReads
    /\ fileReads' = fileReads \cup {text}
    /\ issued' = <<>>
    /\ notified' = <<>>
    /\ UNCHANGED <<phase, jsonText, parseResult, importModalOpen, resetTimers,
                   importRequests, importCount, importSent>>
    /\ UNCHANGED <<mounted, mounts, clicks, cacheVars, loading, uiVars, opVars,
                   usageAnswers, storageFull>>
    /\ UNCHANGED <<apiVars, oauthVars, listVars>>

\* reader.onload (lines 77-84): the text is parsed whatever the modal shows by
\* then
FileLoaded(text) ==
    /\ mounted
    /\ text \in fileReads
    /\ fileReads' = fileReads \ {text}
    /\ jsonText' = text
    /\ parseResult' = parseJson(text)
    /\ phase' = IF parseJson(text) # <<>> /\ Len(parseJson(text)[1].valid) > 0
                THEN "preview" ELSE phase
    /\ issued' = <<>>
    /\ notified' = <<>>
    /\ UNCHANGED <<importModalOpen, resetTimers, importRequests, importCount, importSent>>
    /\ UNCHANGED <<mounted, mounts, clicks, cacheVars, loading, uiVars, opVars,
                   usageAnswers, storageFull>>
    /\ UNCHANGED <<apiVars, oauthVars, listVars>>

\* the import workflow: the modal, the import request and the page's reload
ModalNext ==
    \/ \E text \in ModalTexts : handlePaste(text)
    \/ \E text \in ModalTexts : handleFileSelect(text)
    \/ \E text \in ModalTexts : FileLoaded(text)
    \/ handleBack
    \/ OpenImportModal
    \/ CloseImportModal
    \/ ImportResetTimeout
    \/ handleImport
    \/ \E op \in importRequests, res \in ImportResponses : ImportResponse(op, res)
    \/ \E op \in loads, ok \in BOOLEAN : LoadResponse(op, ok)

\* what a step of the list component leaves alone
listOthers == <<mounted, mounts, cacheVars, loading, uiVars, opVars, usageAnswers,
                storageFull, files>>

\* the search input (KiroAccountList lines 113-122)
HandleSearch(term) ==
    /\ toolbarShown /\ ~deleteModalOpen
    /\ term # searchTerm
    /\ clicks < MaxClicks
    /\ clicks' = clicks + 1
    /\ searchTerm' = term
    /\ currentPage' = 1
    /\ issued' = <<>>
    /\ notified' = <<>>
    /\ UNCHANGED viewMode
    /\ UNCHANGED listOthers
    /\ UNCHANGED <<apiAccounts, apiListed, requests, getCalls, deletes, exports, deleteCall,
                   importVars, oauthVars>>

\* the card and table buttons of the toolbar (lines 125-152)
SetViewMode(mode) ==
    /\ toolbarShown /\ ~deleteModalOpen
    /\ mode # viewMode
    /\ clicks < MaxClicks
    /\ clicks' = clicks + 1
    /\ viewMode' = mode
    /\ issued' = <<>>
    /\ notified' = <<>>
    /\ UNCHANGED <<searchTerm, currentPage>>
    /\ UNCHANGED listOthers
    /\ UNCHANGED <<apiAccounts, apiListed, requests, getCalls, deletes, exports, deleteCall,
                   importVars, oauthVars>>

MaxPage == 3

\* the pagination buttons (lines 250-272), rendered when the searched list is
\* not empty and has more than one page
paginationShown == toolbarShown /\ Len(listAccounts) > 0 /\ totalPages > 1

NextPage ==
    /\ paginationShown /\ ~deleteModalOpen
    /\ currentPage # totalPages
    /\ currentPage < MaxPage
    /\ clicks < MaxClicks
    /\ clicks' = clicks + 1
    /\ currentPage' = currentPage + 1
    /\ issued' = <<>>
    /\ notified' = <<>>
    /\ UNCHANGED <<searchTerm, viewMode>>
    /\ UNCHANGED listOthers
    /\ UNCHANGED <<apiAccounts, apiListed, requests, getCalls, deletes, exports, deleteCall,
                   importVars, oauthVars>>

PrevPage ==
    /\ paginationShown /\ ~deleteModalOpen
    /\ currentPage # 1
    /\ clicks < MaxClicks
    /\ clicks' = clicks + 1
    /\ currentPage' = currentPage - 1
    /\ issued' = <<>>
    /\ notified' = <<>>
    /\ UNCHANGED <<searchTerm, viewMode>>
    /\ UNCHANGED listOthers
    /\ UNCHANGED <<apiAccounts, apiListed, requests, getCalls, deletes, exports, deleteCall,
                   importVars, oauthVars>>

PageNext ==
    \/ Mount
    \/ Unmount
    \/ \E op \in loads, ok \in BOOLEAN : LoadResponse(op, ok)
    \/ \E i \in 1..MaxFiles : HandleRefresh(AccountOfFile(PageFile(i)).id)
    \/ \E op \in refreshes, usage \in UsageResults \cup {THROW_404} :
          RefreshResponse(op, usage)
    \/ HandleRefreshAll
    \/ \E op \in refreshAlls, idx \in 1..BatchAccounts,
          usage \in UsageResults \cup {THROW_404} :
          RefreshAllResponse(op, idx, usage)
    \/ \E i \in 1..MaxFiles : HandleDeleteClick(AccountOfFile(PageFile(i)).id)
    \/ HandleBatchDeleteClick
    \/ HandleDeleteExpired
    \/ HandleDeleteAbnormal
    \/ CloseDeleteModal
    \/ \E status \in StatusFilters : HandleFilterByStatus(status)
    \/ ClearFilter
    \/ \E i \in 1..MaxFiles, selected \in BOOLEAN :
          HandleSelect(AccountOfFile(PageFile(i)).id, selected)
    \/ \E selected \in BOOLEAN : HandleSelectAll(selected)
    \/ HandleDeleteConfirm
    \/ \E op \in deleting, ok \in BOOLEAN : DeleteResponse(op, ok)
    \/ HandleImportComplete
    \/ BackendImport

\* the refresh buttons of the accounts alone
RefreshNext ==
    \/ \E i \in 1..MaxFiles : HandleRefresh(AccountOfFile(PageFile(i)).id)
    \/ \E op \in refreshes, usage \in UsageResults \cup {THROW_404} :
          RefreshResponse(op, usage)

\* refresh-all and the navigation away from the page and back
NavigateNext ==
    \/ HandleRefreshAll
    \/ \E op \in refreshAlls, idx \in 1..BatchAccounts,
          usage \in UsageResults \cup {THROW_404} :
          RefreshAllResponse(op, idx, usage)
    \/ Unmount
    \/ Mount

\* refresh-all alone, on a list longer than one batch
BatchNext ==
    \/ HandleRefreshAll
    \/ \E op \in refreshAlls, idx \in 1..BatchAccounts,
          usage \in UsageResults \cup {THROW_404} :
          RefreshAllResponse(op, idx, usage)

vars == <<apiVars, importVars, oauthVars, pageVars>>

\* the page is not opened: nothing stored, any answer possible
PageIdle ==
    /\ storage = <<>>
    /\ storageFull = FALSE
    /\ usageAnswers = [name \in PoolNames |-> UsageResults]
    /\ PageInit

InitApi == ApiInit /\ ImportInit /\ OAuthInit /\ PageIdle

SpecApi == InitApi /\ [][ApiNext]_vars

\* a mounted page that shows the loaded list fs
PageShows(fs) ==
    /\ storage = <<JSONstringify(AccountsOf(fs))>>
    /\ storageFull = FALSE
    /\ usageAnswers = [name \in PoolNames |-> UsageResults]
    /\ mounted = TRUE
    /\ mounts = 1
    /\ clicks = 0
    /\ cachedAccounts = AccountsOf(fs)
    /\ cachedStats = calcAccountStats(AccountsOf(fs))
    /\ accounts = AccountsOf(fs)
    /\ stats = calcAccountStats(AccountsOf(fs))
    /\ loading = FALSE
    /\ refreshingId = <<>>
    /\ refreshingAll = FALSE
    /\ selectedIds = <<>>
    /\ deleteModalOpen = FALSE
    /\ deleteTarget = <<>>
    /\ statusFilter = "all"
    /\ loads = {}
    /\ refreshes = {}
    /\ refreshAlls = {}
    /\ deleting = {}
    /\ issued = <<>>
    /\ notified = <<>>
    /\ ListInit

\* the list component over ListAccounts accounts, with search, paging, view
\* switch, status filter, select-all and a batch delete the backend carries out
ListAccounts == 16

ListFiles == [i \in 1..ListAccounts |-> PageFile(i)]

\* the search terms typed: none, one that matches every account, one that
\* matches the last account only, one that matches nothing
SearchTerms == {<<>>, <<"kiro-">>, <<ToString(ListAccounts)>>, <<"zz">>}

ListNext ==
    \/ \E term \in SearchTerms : HandleSearch(term)
    \/ \E mode \in {"card", "table"} : SetViewMode(mode)
    \/ NextPage
    \/ PrevPage
    \/ \E status \in StatusFilters : HandleFilterByStatus(status)
    \/ \E selected \in BOOLEAN : HandleSelectAll(selected)
    \/ HandleBatchDeleteClick
    \/ HandleDeleteConfirm
    \/ \E op \in deleting : DeleteResponse(op, TRUE)
    \/ \E op \in loads : LoadResponse(op, TRUE)

InitList ==
    /\ files = ListFiles
    /\ ApiIdle /\ ImportInit /\ OAuthInit /\ PageShows(files)

SpecList == InitList /\ [][ListNext]_vars

\* the stats header and the status filter over every list of up to
\* MaxStatsFiles accounts whose status the backend reports as one of
\* StatsStatuses: the three spellings of KIRO_STATUS_ACTIVE, expired, banned, none
MaxStatsFiles == 3

StatsStatuses == {"active", "zhengchang", "expired", "banned", ""}

StatsListings ==
    UNION {{[i \in 1..k |-> [name |-> PageFileName(i), status |-> st[i], label |-> Undefined]] :
               st \in [1..k -> StatsStatuses]} : k \in 0..MaxStatsFiles}

StatsNext ==
    \/ \E status \in StatusFilters : HandleFilterByStatus(status)
    \/ HandleDeleteAbnormal
    \/ CloseDeleteModal

InitStats ==
    /\ files \in StatsListings
    /\ ApiIdle /\ ImportInit /\ OAuthInit /\ PageShows(files)

SpecStats == InitStats /\ [][StatsNext]_vars

\* the import modal lives in a page that shows at least one account
InitImport ==
    /\ files = <<PageFile(1)>>
    /\ ApiIdle /\ ImportInit /\ OAuthInit /\ PageShows(files)

SpecImport == InitImport /\ [][ImportNext]_vars

InitModal ==
    /\ files = <<PageFile(1)>>
    /\ ApiIdle /\ ImportInit /\ OAuthInit /\ PageShows(files)

SpecModal == InitModal /\ [][ModalNext]_vars

InitOAuth == ApiInit /\ ImportInit /\ OAuthInit /\ PageIdle

SpecOAuth == InitOAuth /\ [][OAuthNext]_vars

\* the Kiro attempt against a status endpoint that answers every request with
\* a final status of KiroOAuthStatusResponse (part_002 lines 100-107)
KiroFinalResults == {"ok", "error", "expired"}

KiroLiveNext ==
    \/ StartKiroAuthClick
    \/ \E res \in StartResults : StartKiroAuthResponse(res)
    \/ \E id \in TimerIds : PollTick(id)
    \/ \E id \in TimerIds, res \in KiroFinalResults : KiroPollResponse(id, res)
    \/ ManualImportClick
    \/ \E res \in {"ok", "error", "throw"} : ManualImportResponse(res)

\* an interval that is not cleared keeps firing (setInterval, 3000 ms), and
\* every request that was sent is answered
KiroLiveFair ==
    /\ \A id \in TimerIds : WF_vars(PollTick(id))
    /\ \A id \in TimerIds :
           WF_vars(\E res \in KiroFinalResults : KiroPollResponse(id, res))
    /\ WF_vars(\E res \in StartResults : StartKiroAuthResponse(res))
    /\ WF_vars(\E res \in {"ok", "error", "throw"} : ManualImportResponse(res))

SpecKiroLive == InitOAuth /\ [][KiroLiveNext]_vars /\ KiroLiveFair

\* the auth files a backend may list to exportAccounts: a listed file may
\* carry its credentials next to the fields getAccounts reads
ExportNames == {<<"kiro-", "a", ".json">>, <<"kiro-", "b", ".json">>,
                <<"codex-", "c", ".json">>}

ExportSecrets ==
    {[accessToken |-> Undefined, refreshToken |-> Undefined, clientSecret |-> Undefined],
     [accessToken |-> "at", refreshToken |-> Undefined, clientSecret |-> Undefined],
     [accessToken |-> Undefined, refreshToken |-> "aor", clientSecret |-> "cs"]}

ExportFiles ==
    {[name |-> n, status |-> "active", label |-> l, accessToken |-> x.accessToken,
      refreshToken |-> x.refreshToken, clientSecret |-> x.clientSecret] :
        n \in ExportNames, l \in {Undefined, "main"}, x \in ExportSecrets}

ExportListings ==
    {fs \in UNION {[1..k -> ExportFiles] : k \in 0..2} :
        \A i, j \in 1..Len(fs) : i # j => fs[i].name # fs[j].name}

\* the ids arguments: undefined, [], ids of listed and of unlisted accounts
ExportIds ==
    {<<>>, <<<<>>>>, <<<< <<"kiro-", "a">> >>>>, <<<< <<"kiro-", "b">>, <<"kiro-", "a">> >>>>,
     <<<< <<"kiro-", "z">> >>>>}

ExportNext == \E ids \in ExportIds, ok \in BOOLEAN : ApiExportAccounts(ids, ok)

InitExport ==
    /\ files \in ExportListings
    /\ ApiIdle /\ ImportInit /\ OAuthInit /\ PageIdle

SpecExport == InitExport /\ [][ExportNext]_vars

\* kiroApi.deleteAccounts on every list of up to MaxDeleteIds ids of listed
\* accounts, an id possibly more than once, each DELETE succeeding or failing
MaxDeleteIds == 3

DeleteIdPool == Elems(IdsOf(AccountsOf([i \in 1..MaxFiles |-> PageFile(i)])))

DeleteInputs == UNION {[1..k -> DeleteIdPool] : k \in 0..MaxDeleteIds}

DeleteNext ==
    \/ \E ids \in DeleteInputs : ApiDeleteAccounts(ids)
    \/ \E ok \in BOOLEAN : ApiDeleteAnswer(ok)

InitDelete ==
    /\ files = [i \in 1..MaxFiles |-> PageFile(i)]
    /\ ApiIdle /\ ImportInit /\ OAuthInit /\ PageIdle

SpecDelete == InitDelete /\ [][DeleteNext]_vars

\* the application is opened on a backend that holds some Kiro files; the
\* browser stores nothing yet, or the list an earlier session stored
InitPage ==
    /\ files \in PageListings
    /\ ApiIdle /\ ImportInit /\ OAuthInit
    /\ storage \in {<<>>, <<JSONstringify(AccountsOf(files))>>}
    /\ storageFull \in BOOLEAN
    /\ usageAnswers = [name \in PoolNames |-> UsageResults]
    /\ PageInit

SpecPage == InitPage /\ [][PageNext]_vars

\* a mounted page that shows the loaded accounts of the pool's files
InitRefresh ==
    /\ files = [i \in 1..MaxFiles |-> PageFile(i)]
    /\ ApiIdle /\ ImportInit /\ OAuthInit /\ PageShows(files)

SpecRefresh == InitRefresh /\ [][RefreshNext]_vars

SpecNavigate == InitRefresh /\ [][NavigateNext]_vars

\* the answer the usage endpoint gives for the i-th file of the long list
BatchAnswer(i) ==
    CASE i % 5 = 0 -> OK_FULL
      [] i % 5 = 1 -> BANNED
      [] i % 5 = 2 -> THROW_NET
      [] i % 5 = 3 -> ERR_EXPIRED
      [] OTHER     -> ERR_OTHER

BatchFiles == [i \in 1..BatchAccounts |-> PageFile(i)]

\* the list the browser stored: the accounts of the files, the third without
\* a fileName key (loadCacheFromStorage takes the stored array as it is, lines
\* 28-37)
BatchList ==
    [i \in 1..BatchAccounts |->
        IF i = 3 THEN [AccountsOf(BatchFiles)[i] EXCEPT !.fileName = <<>>]
        ELSE AccountsOf(BatchFiles)[i]]

\* a mounted page that shows a stored list longer than one batch
InitBatch ==
    /\ files = BatchFiles
    /\ ApiIdle /\ ImportInit /\ OAuthInit
    /\ storage = <<JSONstringify(BatchList)>>
    /\ storageFull = FALSE
    /\ usageAnswers = [name \in PageNames |->
           {BatchAnswer(CHOOSE i \in 1..BatchAccounts : PageFileName(i) = name)}]
    /\ mounted = TRUE
    /\ mounts = 1
    /\ clicks = 0
    /\ cachedAccounts = BatchList
    /\ cachedStats = calcAccountStats(BatchList)
    /\ accounts = BatchList
    /\ stats = calcAccountStats(BatchList)
    /\ loading = FALSE
    /\ refreshingId = <<>>
    /\ refreshingAll = FALSE
    /\ selectedIds = <<>>
    /\ deleteModalOpen = FALSE
    /\ deleteTarget = <<>>
    /\ statusFilter = "all"
    /\ loads = {}
    /\ refreshes = {}
    /\ refreshAlls = {}
    /\ deleting = {}
    /\ issued = <<>>
    /\ notified = <<>>
    /\ ListInit

SpecBatch == InitBatch /\ [][BatchNext]_vars

(***************************************************************************)
(* Claims about kiroApi (checked under SpecApi)                            *)
(***************************************************************************)
\* the files of a listing whose lower-cased name starts with kiro- or amazonq-
KiroFilesOf(listing) ==
    SelectSeq(listing, LAMBDA f : LowerToken(f.name[1]) \in {"kiro-", "amazonq-"})

\* C8: for every file that getAccounts lists, deleteAccount(account.id)
\* addresses exactly the file named account.fileName.
C8_DeleteAddressesListedFile ==
    \A d \in deletes : d.target = d.fileName

\* C10: getAccounts issues one GET /auth-files per call and no per-file
\* detail request, and returns exactly one account per listed file whose
\* lower-cased name starts with 'kiro-' or 'amazonq-', in listing order,
\* and no account for any other file.
C10_GetAccountsListsKiroFiles ==
    /\ \A i \in 1..Len(requests) :
          requests[i].method = "GET" =>
              requests[i].url = "/auth-files" /\ requests[i].name = <<>>
    /\ Cardinality({i \in 1..Len(requests) : requests[i].method = "GET"}) = getCalls
    /\ getCalls > 0 =>
          /\ Len(apiAccounts) = Len(KiroFilesOf(apiListed))
          /\ \A i \in 1..Len(apiAccounts) :
                apiAccounts[i].fileName = KiroFilesOf(apiListed)[i].name

\* a listing of two files, the first not a Kiro file, the second a Kiro file
\* in mixed case, has been answered with one account
C10_Witness ==
    /\ Len(apiListed) = 2
    /\ apiListed[1].name[1] = "codex-"
    /\ apiListed[2].name[1] = "Kiro-"
    /\ Len(apiAccounts) = 1
    /\ getCalls = 1

(***************************************************************************)
(* Claims about KiroImportModal (checked under SpecImport)                 *)
(***************************************************************************)
HasAorToken(e) == e.refreshToken.t = "string" /\ startsWith(e.refreshToken.s, <<"aor">>)

\* C6: parseJson partitions the entries of parseable JSON into valid and
\* invalid (|valid| + |invalid| = number of entries), an entry is valid iff
\* its refreshToken starts with 'aor', valid entries keep their order; blank
\* text yields no result; unparseable text yields no valid entry and exactly
\* one invalid entry with index -1.
C6_ParseJsonPartitions ==
    /\ jsonText.kind = "blank" => parseResult = <<>>
    /\ parseResult # <<>> =>
          LET r == parseResult[1]
          IN  /\ jsonText.kind = "garbage" =>
                    /\ r.valid = <<>>
                    /\ Len(r.invalid) = 1
                    /\ r.invalid[1].index = -1
              /\ jsonText.kind = "json" =>
                    /\ Len(r.valid) + Len(r.invalid) = Len(jsonText.items)
                    /\ r.valid = SelectSeq(jsonText.items, HasAorToken)
                    /\ \A i \in 1..Len(r.invalid) :
                          /\ r.invalid[i].index \in 0..(Len(jsonText.items) - 1)
                          /\ ~HasAorToken(jsonText.items[r.invalid[i].index + 1])

(***************************************************************************)
(* Claims about OAuthPage (checked under SpecOAuth)                        *)
(***************************************************************************)
ActiveTimersOf(key) == {id \in activeTimers : timerKey[id] = key}

\* C3: in every reachable state at most one status-polling interval timer
\* is active for a given provider key (each generic provider, and 'kiro').
C3_OnePollingTimerPerKey ==
    \A key \in TimerKeys : Cardinality(ActiveTimersOf(key)) <= 1

\* C4: for a generic provider, a status response other than 'ok' or 'error'
\* leaves the provider state unchanged and the loop running; once a status
\* request returns 'ok', returns 'error' or throws, that loop's timer is
\* cleared, polling becomes false and the status becomes 'success' (for
\* 'ok') or 'error' (otherwise); a loop that saw such a response issues no
\* further status request.
C4_GenericPollingRunsUntilCompletion ==
    [][\A id \in TimerIds, p \in PROVIDERS :
          /\ PollResponse(id, p, "wait") =>
                /\ states' = states
                /\ activeTimers' = activeTimers
                /\ timers' = timers
          /\ \A res \in {"ok", "error", "throw"} :
                PollResponse(id, p, res) =>
                    /\ id \notin activeTimers'
                    /\ states'[p].polling = FALSE
                    /\ states'[p].status = (IF res = "ok" THEN "success" ELSE "error")
          /\ PollTick(id) => id \notin finished
      ]_vars

\* a generic provider's loop has seen a final response that was not 'ok' and
\* has stopped
C4_Witness ==
    \E id \in finished :
        /\ timerKey[id] \in PROVIDERS
        /\ id \notin activeTimers
        /\ states[timerKey[id]] = [status |-> "error", polling |-> FALSE]

(***************************************************************************)
(* Claims about KiroPage (checked under SpecPage and SpecBatch)            *)
(***************************************************************************)
\* the list the application would load from browser storage
StoredAccounts == loadCacheFromStorage(storage).accounts

\* C1: once the page is loaded, the displayed list, cachedAccounts and the
\* list stored under 'kiro_accounts_cache' are the same list, and the
\* displayed stats are calcAccountStats of it.
C1_CacheStorageDisplayInSync ==
    /\ StoredAccounts = cachedAccounts
    /\ cachedStats = calcAccountStats(cachedAccounts)
    /\ (mounted /\ ~loading) =>
          /\ accounts = cachedAccounts
          /\ stats = calcAccountStats(accounts)

C2_InFlight ==
    \A op \in refreshAlls :
        /\ Cardinality(op.pending) <= 10
        /\ \E k \in 0..Len(op.accountList) :
              op.pending \subseteq (10 * k + 1)..(10 * k + 10)

C2_Step ==
    /\ Len(issued') <= 10
    /\ \A op \in refreshAlls, op2 \in refreshAlls' :
          (op2.n = op.n /\ op2.pending \ op.pending # {}) =>
              /\ Cardinality(op.pending) = 1
              /\ op2.pending \cap op.pending = {}
              /\ \A idx \in op2.pending, old \in op.pending : idx > old

\* C2: at no time are more than 10 usage requests of one refresh-all in
\* flight, the requests in flight belong to one batch of 10 consecutive
\* accounts, and the requests of the next batch are issued only in the step
\* in which the last request of the batch before settles.
C2_BatchesOfTenOneAfterAnother == []C2_InFlight /\ [][C2_Step]_vars

\* the second batch of a list of more than 10 accounts is in flight
C2_Witness ==
    \E op \in refreshAlls :
        /\ Len(op.accountList) > 10
        /\ op.pending # {}
        /\ \A idx \in op.pending : idx > 10
        /\ Len(issued) = Len(op.accountList) - 10

\* the reconciliation the claim states, for one account and a response body
C5_Expected(a, usage) ==
    CASE usage.status = "ok" ->
             [a EXCEPT
                !.status = "active",
                !.usageData =
                    <<[usageBreakdownList |->
                           <<[currentUsage |-> IF usage.current_usage = <<>> THEN 0
                                               ELSE usage.current_usage[1],
                              usageLimit   |-> IF usage.usage_limit = <<>> THEN 0
                                               ELSE usage.usage_limit[1]]>>,
                       subscriptionInfo |->
                           [type |-> <<"subscription">>,
                            subscriptionTitle |->
                                IF usage.subscription_title = <<>> THEN <<"Free">>
                                ELSE usage.subscription_title[1]]]>>]
      [] usage.status = "banned" -> [a EXCEPT !.status = "banned"]
      [] usage.status = "expired"
         \/ (usage.error # <<>> /\ "expired" \in Elems(usage.error[1])) ->
             [a EXCEPT !.status = "expired"]
      [] OTHER -> a

C5_Other(usage) ==
    /\ usage.status \notin {"ok", "banned", "expired"}
    /\ ~(usage.error # <<>> /\ "expired" \in Elems(usage.error[1]))

C5_Responses == {usage \in UsageResults : usage.kind = "response"}

\* C5: single refresh and refresh-all make the same thing of a usage
\* response: 'ok' gives status 'active' and the reported usage, limit and
\* title (defaults 0, 0, 'Free'); 'banned' gives 'banned' and keeps
\* usageData; 'expired' or an error text containing 'expired' gives
\* 'expired' and keeps usageData; any other response changes nothing.
C5_SameReconciliation ==
    [][/\ \A op \in refreshes, usage \in C5_Responses :
             RefreshResponse(op, usage) =>
                 IF C5_Other(usage) THEN cachedAccounts' = cachedAccounts
                 ELSE cachedAccounts' =
                          [i \in 1..Len(op.accounts) |->
                              IF op.accounts[i].id = op.id
                              THEN C5_Expected(op.accounts[i], usage)
                              ELSE op.accounts[i]]
       /\ \A op \in refreshAlls, idx \in 1..MaxFiles, usage \in C5_Responses :
             RefreshAllResponse(op, idx, usage) =>
                 \/ \E op2 \in refreshAlls' :
                       /\ op2.n = op.n
                       /\ op2.results =
                              [op.results EXCEPT ![idx] = C5_Expected(op.results[idx], usage)]
                 \/ /\ \A op2 \in refreshAlls' : op2.n # op.n
                    /\ cachedAccounts' =
                           [op.results EXCEPT ![idx] = C5_Expected(op.results[idx], usage)]
      ]_vars

\* a refresh-all has marked banned an account that a refresh had made
\* active, and has kept its usageData
C5_Witness ==
    \E op \in refreshAlls, idx \in 1..MaxFiles :
        /\ idx <= Len(op.accountList)
        /\ op.accountList[idx].status = "active"
        /\ op.accountList[idx].usageData # <<>>
        /\ op.results[idx].status = "banned"
        /\ op.results[idx].usageData = op.accountList[idx].usageData

\* the ids of the confirmed target, as the claim states them
C7_Target(target, list, selected) ==
    CASE target.type = "single"   -> <<target.id>>
      [] target.type = "batch"    -> selected
      [] target.type = "expired"  ->
             IdsOf(SelectSeq(list, LAMBDA a : a.status = "expired"))
      [] target.type = "abnormal" ->
             IdsOf(SelectSeq(list, LAMBDA a : a.status \in {"expired", "banned"}))

C7_DeleteRequests(reqs) == SelectSeq(reqs, LAMBDA r : r.method = "DELETE")

\* C7: delete requests are issued only by a delete confirmation and exactly
\* for its confirmed target, one id after the other: the one id, the
\* selected ids, the accounts whose status in the page's list is 'expired',
\* or those whose status is 'expired' or 'banned'; the expired and abnormal
\* actions never take an account whose status is 'active' or 'unknown'.
C7_DeletesOnlyConfirmedTarget ==
    [][/\ C7_DeleteRequests(issued') # <<>> =>
             /\ Len(issued') = 1
             /\ \E op2 \in deleting' :
                   /\ issued'[1].name = op2.ids[op2.k] \o <<".json">>
                   /\ \/ /\ HandleDeleteConfirm
                         /\ \A op \in deleting : op.n # op2.n
                         /\ op2.k = 1
                      \/ \E op \in deleting :
                            /\ op.n = op2.n
                            /\ op2.k = op.k + 1
                            /\ \E ok \in BOOLEAN : DeleteResponse(op, ok)
       /\ \A op2 \in deleting' :
             \/ \E op \in deleting : op.n = op2.n /\ op.ids = op2.ids /\ op.type = op2.type
             \/ /\ HandleDeleteConfirm
                /\ op2.type = deleteTarget[1].type
                /\ op2.ids = C7_Target(deleteTarget[1], accounts, selectedIds)
                /\ op2.type \in {"expired", "abnormal"} =>
                      \A i \in 1..Len(op2.ids) :
                          findAccount(accounts, op2.ids[i])[1].status
                              \notin {"active", "unknown"}
       /\ \A op \in deleting :
             (\A op2 \in deleting' : op2.n # op.n) =>
                 \/ op.k = Len(op.ids)
                 \/ op.type = "single"
      ]_vars

\* the abnormal action has deleted the first of its two accounts and has
\* issued the delete request for the second
C7_Witness ==
    \E op \in deleting :
        /\ op.type = "abnormal"
        /\ Len(op.ids) = 2
        /\ op.k = 2
        /\ issued = <<deleteAccountRequest(op.ids[2])>>

C11_WithSecrets(list, x) ==
    [i \in 1..Len(list) |-> list[i] @@ x]

C11_Keys(entry) == {entry[k].key : k \in 1..Len(entry)}

\* the positions of the accounts that ids asks for
C11_Wanted(list, ids) ==
    IF ids # <<>> /\ Len(ids[1]) > 0
    THEN {i \in 1..Len(list) : list[i].id \in Elems(ids[1])}
    ELSE 1..Len(list)

\* C11: every text that exportAccounts resolved with holds no accessToken,
\* refreshToken or clientSecret key; it is the text exported for the same
\* accounts carrying any credentials, and for the same listing without its
\* credentials; it holds one object per account that ids asks for (every
\* account when ids is undefined or empty) and no other object.
C11_ExportLeavesCredentialsOut ==
    \A n \in 1..Len(exports) :
        LET e == exports[n]
            listed == AccountsOf(e.listed)
            wanted == C11_Wanted(listed, e.ids)
        IN  ~e.rejected =>
              /\ \A k \in 1..Len(e.text[1]) :
                     C11_Keys(e.text[1][k]) \cap SENSITIVE_KEYS = {}
              /\ \A x \in ExportSecrets :
                     exportText(C11_WithSecrets(listed, x), e.ids) = e.text[1]
              /\ \A x \in ExportSecrets :
                     exportText(AccountsOf([i \in 1..Len(e.listed) |-> x @@ e.listed[i]]),
                                e.ids) = e.text[1]
              /\ Len(e.text[1]) = Cardinality(wanted)
              /\ {e.text[1][k][1].value : k \in 1..Len(e.text[1])}
                     = {listed[i].id : i \in wanted}

\* an export by ids of a listing that holds credentials: one of two accounts
\* is exported
C11_Witness ==
    \E n \in 1..Len(exports) :
        /\ ~exports[n].rejected
        /\ exports[n].ids = <<<< <<"kiro-", "a">> >>>>
        /\ Len(AccountsOf(exports[n].listed)) = 2
        /\ \E i \in 1..2 : exports[n].listed[i].accessToken # Undefined
        /\ \E i \in 1..2 : exports[n].listed[i].clientSecret # Undefined
        /\ Len(exports[n].text[1]) = 1

(***************************************************************************)
(* C12: what the import modal sends, and when the page reloads             *)
(***************************************************************************)
\* the response reports a successfully imported account: by its success
\* count, or when it has none by a result of status 'success'
C12_Reports(res) ==
    /\ res.kind = "object"
    /\ \/ res.success # <<>> /\ res.success[1] >= 1
       \/ res.success = <<>> /\ res.results # <<>>
              /\ \E i \in 1..Len(res.results[1]) : res.results[1][i] = "success"

C12_Posts(reqs) == {i \in 1..Len(reqs) : reqs[i].url = "/import-kiro-accounts"}

\* C12: a step that sends an import request sends exactly one, and sends the
\* entries parseJson classifies as valid in the modal's text, of which there
\* is at least one; a click on the import button without a valid entry sends
\* nothing; a step in which an import response arrives starts the page's
\* forced reload if and only if the response reports a successful import.
C12_ImportSendsValidEntriesOnce ==
    [][ /\ (C12_Posts(issued') # {} \/ importCount' # importCount) =>
              /\ parseJson(jsonText) # <<>>
              /\ Len(parseJson(jsonText)[1].valid) > 0
              /\ importSent' = <<parseJson(jsonText)[1].valid>>
              /\ issued' = <<importRequest>>
              /\ importCount' = importCount + 1
        /\ \A op \in importRequests, res \in ImportResponses :
              ImportResponse(op, res) =>
                 ( C12_Reports(res) <=>
                     /\ loads' = loads \cup {[n |-> op.n, inst |-> op.inst, from |-> "modal"]}
                     /\ loads' # loads
                     /\ issued' = getAccountsRequests )
        /\ (loads' \ loads) # {} => \E op \in importRequests : op \notin importRequests'
      ]_vars

\* an import was sent and answered, and the page's reload is under way
C12_Witness ==
    /\ importCount = 1
    /\ importRequests = {}
    /\ phase = "complete"
    /\ Len(importSent[1]) = 1
    /\ \E op \in loads : op.from = "modal"
    /\ loading

(***************************************************************************)
(* C13: refresh-all touches status and usageData only                      *)
(***************************************************************************)
\* the answer leaves the account as it is: the request threw, or the response
\* is none of ok, banned and expired (expired by its status or error text)
C13_Fails(usage) ==
    \/ usage.kind = "throw"
    \/ /\ usage.status \notin {"ok", "banned", "expired"}
       /\ ~(usage.error # <<>> /\ includes(usage.error[1], <<"expired">>))

C13_NewStatus(usage) ==
    CASE usage.status = "ok" -> "active"
      [] usage.status = "banned" -> "banned"
      [] OTHER -> "expired"

\* the step in which the last request of a batch of op settles:
\* fetchUsageForAccounts writes the cache
C13_Writes(op) ==
    /\ op \in refreshAlls
    /\ Cardinality(op.pending) = 1
    /\ \E idx \in op.pending, usage \in UsageResults \cup {THROW_404} :
          RefreshAllResponse(op, idx, usage)

\* C13: every list fetchUsageForAccounts writes to the cache has the length
\* of its input list and at every position the id, fileName and label of the
\* input; of the batches done so far, an account without fileName, one whose
\* request threw and one whose response is none of ok/banned/expired is as in
\* the input, and every other account has the status its response gives,
\* whatever happened to the accounts around it.
C13_RefreshAllTouchesStatusAndUsageOnly ==
    [][\A op \in refreshAlls :
          C13_Writes(op) =>
             /\ Len(cachedAccounts') = Len(op.accountList)
             /\ \A i \in 1..Len(op.accountList) :
                   LET old == op.accountList[i]
                       new == cachedAccounts'[i]
                       usage == BatchAnswer(i)
                   IN  /\ new.id = old.id
                       /\ new.fileName = old.fileName
                       /\ new.label = old.label
                       /\ i > op.i + BATCH_SIZE => new = old
                       /\ (i <= op.i + BATCH_SIZE /\ (old.fileName = <<>> \/ C13_Fails(usage)))
                              => new = old
                       /\ (i <= op.i + BATCH_SIZE /\ old.fileName # <<>> /\ ~C13_Fails(usage))
                              => new.status = C13_NewStatus(usage)
      ]_vars

\* a refresh-all of twelve accounts is over: the third has no fileName, the
\* request of the second threw, the fourth got an error response; the first,
\* the tenth and, in the second batch, the eleventh are updated
C13_Witness ==
    /\ refreshAlls = {}
    /\ ~refreshingAll
    /\ Len(cachedAccounts) = BatchAccounts
    /\ cachedAccounts[3].fileName = <<>>
    /\ cachedAccounts[2] = BatchList[2]
    /\ cachedAccounts[3] = BatchList[3]
    /\ cachedAccounts[4] = BatchList[4]
    /\ cachedAccounts[1].status = "banned"
    /\ cachedAccounts[10].status = "active"
    /\ cachedAccounts[11].status = "banned"

(***************************************************************************)
(* C14: a refresh-all that outlives a delete and its reload                *)
(***************************************************************************)
\* the ids of the accounts of a list whose file the backend does not hold
C14_Deleted(list, fs) ==
    {list[i].id : i \in {j \in 1..Len(list) : ~FileExists(fs, list[j].fileName)}}

\* the step in which the last request of op settles and op is over
C14_Completes(op) ==
    /\ op \in refreshAlls
    /\ \A op2 \in refreshAlls' : op2.n # op.n
    /\ \E idx \in op.pending, usage \in UsageResults \cup {THROW_404} :
          RefreshAllResponse(op, idx, usage)

\* C14: when a refresh-all completes after a delete and its reload have
\* removed an account from the cache, the cache and the stored list hold no
\* account of a deleted file that the cache did not hold before that step.
C14_DeletedAccountsStayDeleted ==
    [][\A op \in refreshAlls :
          (C14_Completes(op) /\ loads = {} /\ deleting = {}) =>
             /\ C14_Deleted(cachedAccounts', files') \subseteq
                    C14_Deleted(cachedAccounts, files)
             /\ storage' # <<>> =>
                    C14_Deleted(JSONparse(storage'[1]), files') \subseteq
                       C14_Deleted(cachedAccounts, files)
      ]_vars

(***************************************************************************)
(* C15: single refreshes of two accounts that overlap                      *)
(***************************************************************************)
\* the cached account of an id: <<>> or <<account>>
C15_Cached(list, id) == findAccount(list, id)

\* C15: where single refreshes are the only writers of the cache, the
\* response of a refresh of B leaves the cached entry of every other account
\* as it is, so that the status an overlapping refresh of A wrote is kept.
C15_NoLostUpdate ==
    [][\A op \in refreshes, usage \in UsageResults \cup {THROW_404} :
          RefreshResponse(op, usage) =>
             \A i \in 1..Len(cachedAccounts) :
                 cachedAccounts[i].id # op.id =>
                    C15_Cached(cachedAccounts', cachedAccounts[i].id) = <<cachedAccounts[i]>>
      ]_vars

(***************************************************************************)
(* C16: one refresh-all at a time                                          *)
(***************************************************************************)
\* C16: at most one refresh-all workflow is in progress at a time, and while
\* one of the mounted page is in progress refreshingAll is true (the control
\* is disabled).
C16_OneRefreshAllAtATime ==
    /\ Cardinality(refreshAlls) <= 1
    /\ \A op \in refreshAlls : Live(op) => refreshingAll

(***************************************************************************)
(* C17: a failed listing request leaves the cache untouched.  When the     *)
(* request of a loadAccounts call fails, the displayed list, the cached    *)
(* list and stats, the stored list and the displayed stats are unchanged   *)
(* and one error notification is shown; after every loadAccounts call,     *)
(* failed, successful or answered from the cache, the instance that made   *)
(* it is not loading.                                                      *)
(***************************************************************************)
C17_FailedLoadKeepsCache ==
    [][ /\ \A op \in loads :
             /\ LoadResponse(op, FALSE) =>
                    /\ UNCHANGED cacheVars
                    /\ notified' = <<"error">>
             /\ \A ok \in BOOLEAN :
                    LoadResponse(op, ok) /\ Live(op) => ~loading'
        /\ Mount /\ Len(cachedAccounts) > 0 => ~loading' /\ notified' = <<>>
      ]_vars

\* the reload after a successful delete failed: the cache still lists the
\* deleted account
C17_Witness ==
    /\ mounted /\ clicks = 3
    /\ loads = {} /\ deleting = {}
    /\ notified = <<"error">>
    /\ ~loading
    /\ Len(files) < Len(cachedAccounts)
    /\ accounts = cachedAccounts
    /\ storage = <<JSONstringify(cachedAccounts)>>
    /\ stats = calcAccountStats(accounts)
(***************************************************************************)
(* C18: a cache hit avoids the network.  The mount of KiroPage sends at    *)
(* most one listing request, and sends it only when the module's cache,    *)
(* which the first mount finds as it was loaded from browser storage, is   *)
(* empty; with a non-empty cache the mount shows the cached list and       *)
(* stats, ends loading and sends nothing.                                  *)
(***************************************************************************)
C18_CacheHitAvoidsNetwork ==
    [][ Mount =>
          /\ Len(issued') <= 1
          /\ loads' \ loads # {} => issued' = getAccountsRequests
          /\ issued' # <<>> => Len(cachedAccounts) = 0
          /\ issued' # <<>> /\ mounts = 0 =>
                 Len(loadCacheFromStorage(storage).accounts) = 0
          /\ Len(cachedAccounts) > 0 =>
                 /\ issued' = <<>> /\ loads' = loads
                 /\ accounts' = cachedAccounts /\ stats' = cachedStats
                 /\ ~loading'
      ]_vars

\* the page was opened over a stored list and shows it without a request
C18_Witness ==
    /\ mounted /\ mounts = 1 /\ clicks = 1
    /\ Len(cachedAccounts) > 0
    /\ accounts = cachedAccounts /\ stats = cachedStats
    /\ ~loading /\ loads = {} /\ issued = <<>>
(***************************************************************************)
(* C19: a delete confirmation always ends cleanly.  When handleDeleteConfirm*)
(* returns, after a failed single delete or after the reload that follows  *)
(* its deletes, the page that ran it has the confirmation modal closed and *)
(* no delete target.  A failed single delete starts no reload, leaves the  *)
(* cache and the status filter unchanged and shows an error notification.  *)
(* When the deletes are done the status filter is 'all' as the reload      *)
(* starts.                                                                 *)
(***************************************************************************)
C19_Returned(op) == Live(op) => ~deleteModalOpen' /\ deleteTarget' = <<>>

C19_Reloads == loads' # loads

C20_Returned == deleteCall # <<>> /\ deleteCall[1].k > Len(deleteCall[1].ids)

C20_BatchDeleteIsTotal ==
    /\ deleteCall # <<>> =>
           LET c == deleteCall[1]
           IN  /\ Len(requests) = Min({c.k, Len(c.ids)})
               /\ \A i \in 1..Len(requests) : requests[i] = deleteAccountRequest(c.ids[i])
    /\ C20_Returned =>
           LET c == deleteCall[1]
           IN  /\ c.result # <<>>
               /\ c.result[1].deleted = c.deleted /\ c.result[1].errors = c.errors
               /\ Elems(c.deleted) \cap Elems(c.errors) = {}
               /\ Elems(c.deleted) \cup Elems(c.errors) = Elems(c.ids)
               /\ c.result[1].success <=> (c.errors = <<>>)
(***************************************************************************)
(* C21: a status response of an earlier attempt never changes a later      *)
(* attempt of the same provider.  When a new attempt of a provider has     *)
(* been started (its start request is awaited or its loop is registered),  *)
(* the response to a request of another, earlier loop leaves the           *)
(* provider's status and polling flag and the registry entry of the new    *)
(* loop as they are.                                                       *)
(***************************************************************************)
C21_LaterAttempt(key, id) ==
    id # timers[key] /\ (timers[key] # 0 \/ key \in starting)

C21_LateResponseIsIgnored ==
    [][ /\ \A id \in TimerIds, p \in PROVIDERS, res \in StatusResults :
             PollResponse(id, p, res) /\ C21_LaterAttempt(p, id) =>
                 states'[p] = states[p] /\ timers'[p] = timers[p]
        /\ \A id \in TimerIds, res \in KiroStatusResults :
             KiroPollResponse(id, res) /\ C21_LaterAttempt(KIRO, id) =>
                 /\ kiroState' = kiroState
                 /\ timers'[KIRO] = timers[KIRO]
      ]_vars
(***************************************************************************)
(* C22: every Kiro attempt whose status endpoint answers with a final      *)
(* status ('ok', 'error' that is no 'auth_url|' redirect, 'expired')       *)
(* eventually stops polling: the timer of its loop is cleared and          *)
(* kiroState.polling is false.                                             *)
(***************************************************************************)
C22_FinalStatusStopsPolling ==
    \A id \in TimerIds :
        (id \in activeTimers /\ timerKey[id] = KIRO)
            ~> (id \notin activeTimers /\ ~kiroState.polling)
(***************************************************************************)
(* C23: the phase of the import modal changes only along upload to         *)
(* preview (a parse with a valid entry), preview to importing, importing   *)
(* to complete, importing to preview (the request failed), preview to      *)
(* upload (back) and any phase to upload (the reset after closing); and    *)
(* whenever the phase is 'preview' the parse result holds at least one     *)
(* valid entry.                                                            *)
(***************************************************************************)
C23_Transitions ==
    {<<"upload", "preview">>, <<"preview", "importing">>, <<"importing", "complete">>,
     <<"importing", "preview">>, <<"preview", "upload">>, <<"importing", "upload">>,
     <<"complete", "upload">>}

C23_PhaseFollowsTransitions ==
    [][ /\ phase' # phase => <<phase, phase'>> \in C23_Transitions
        /\ phase' = "preview" =>
               parseResult' # <<>> /\ Len(parseResult'[1].valid) > 0
      ]_vars
(***************************************************************************)
(* C24: select-all selects only what the user sees as the current list.    *)
(* After the select-all checkbox is checked, every selected id is the id   *)
(* of an account that matches the status filter and the search term.       *)
(***************************************************************************)
C24_SelectAllSelectsTheListShown ==
    [][ HandleSelectAll(TRUE) =>
            Elems(selectedIds') \subseteq Elems(IdsOf(listAccounts)) ]_vars
(***************************************************************************)
(* C25: the current page of the account list is always valid.  In every    *)
(* state of KiroAccountList, 1 <= currentPage <= totalPages, whatever      *)
(* next/previous clicks, search changes, view switches, status-filter      *)
(* changes and deletes have happened.                                      *)
(***************************************************************************)
C25_CurrentPageIsValid == 1 <= currentPage /\ currentPage <= totalPages

(***************************************************************************)
(* C26: a provider shown as polling really is being polled.  In every      *)
(* state of OAuthPage, a provider whose polling flag is true and whose     *)
(* start request has returned has an active polling timer registered.      *)
(***************************************************************************)
C26_Polled(key) == timers[key] # 0 /\ timers[key] \in activeTimers

C26_PollingHasTimer ==
    /\ \A p \in PROVIDERS : states[p].polling /\ p \notin starting => C26_Polled(p)
    /\ kiroState.polling /\ KIRO \notin starting => C26_Polled(KIRO)

(***************************************************************************)
(* C27: a successful manual Kiro token import ends only the Kiro attempt.  *)
(* It sets the Kiro status to 'success' and stops the Kiro loop, and the   *)
(* states, registry entries and timers of the other providers are as       *)
(* before; a failed import changes neither the Kiro state nor any timer.   *)
(***************************************************************************)
C27_TimersOf(active, p) == {id \in active : timerKey[id] = p}

C27_ManualImportEndsKiroOnly ==
    [][ /\ ManualImportResponse("ok") =>
              /\ kiroState' = [status |-> "success", polling |-> FALSE]
              /\ timers'[KIRO] = 0
              /\ timers[KIRO] \notin activeTimers'
              /\ \A p \in PROVIDERS :
                     /\ states'[p] = states[p]
                     /\ timers'[p] = timers[p]
                     /\ C27_TimersOf(activeTimers', p) = C27_TimersOf(activeTimers, p)
        /\ \A res \in {"error", "throw"} :
              ManualImportResponse(res) => UNCHANGED <<kiroState, timers, activeTimers>>
      ]_vars

(***************************************************************************)
(* C28: within one Kiro polling loop the authorization URL is opened in a  *)
(* new window at most once, whether it arrives as status 'auth_url' or as  *)
(* an 'error' whose text starts with 'auth_url|'.  Such an answer is no    *)
(* failure: the first one sets the status to 'auth_url', none changes the  *)
(* polling flag, and the loop keeps running.                               *)
(***************************************************************************)
C28_AuthUrlOpenedOnce ==
    [][ /\ \A id \in TimerIds : opened'[id] <= 1
        /\ \A id \in TimerIds, res \in {"auth_url", "error_auth_url"} :
              KiroPollResponse(id, res) =>
                 /\ kiroState'.polling = kiroState.polling
                 /\ kiroState'.status \in {"auth_url", kiroState.status}
                 /\ opened[id] = 0 => kiroState'.status = "auth_url" /\ opened'[id] = 1
                 /\ UNCHANGED <<timers, activeTimers, finished>>
      ]_vars

\* a loop has opened the URL and goes on polling
C28_Witness ==
    \E id \in TimerIds :
        /\ opened[id] = 1 /\ id \in authUrlOpened
        /\ timers[KIRO] = id /\ id \in activeTimers
        /\ kiroState = [status |-> "auth_url", polling |-> TRUE]
        /\ inflight[id] > 0
(***************************************************************************)
(* C29: the header counts agree with the filters.  For every account list  *)
(* the Active count of the stats header equals the number of accounts the  *)
(* 'active' filter lists, and the Abnormal count (expired + banned) equals *)
(* the number the 'abnormal' filter lists and the number of ids that       *)
(* delete-abnormal passes to the batch delete.                             *)
(***************************************************************************)
C29_AbnormalCount == stats.expired + stats.banned

C29_HeaderCountsAgreeWithFilters ==
    mounted =>
        /\ stats.active = Len(filteredAccountsOf(accounts, "active"))
        /\ C29_AbnormalCount = Len(filteredAccountsOf(accounts, "abnormal"))
        /\ C29_AbnormalCount =
               Len(confirmedIds([type |-> "abnormal", id |-> <<>>], accounts, selectedIds))
====
